---- MODULE Spec2Model ----
(***************************************************************************)
(* Model of the StudyFlow backend: the syllabus parser (parser.py), the    *)
(* schedule synthesizer (scheduler.py) and the upload request (app.py).    *)
(*                                                                         *)
(* Python str values on which the code does character work (dates, times,  *)
(* sentences) are sequences of one-character strings.  Python dicts are    *)
(* records; a key that may be absent is a field that may be absent.        *)
(***************************************************************************)
EXTENDS Integers, Sequences, FiniteSets, TLC

VARIABLES
    pc,            \* position of the call of create_schedule
    day_i,         \* create_schedule's loop variable i
    now,           \* the ambient clock: [date |-> <<y,m,d>>, tod |-> seconds]
    padYear,       \* platform: does the C library's strftime zero-pad %Y
    hashSeed,      \* the process's str hash seed (iteration order of sets)
    parsed_dates,  \* create_schedule's first argument
    user_data,     \* create_schedule's second argument
    schedule,      \* create_schedule's outcome
    text,          \* the argument of the parser function under call
    parsed,        \* the parser function's outcome
    request,       \* the upload request: its file and its form
    response,      \* the answer to the upload request
    student_schedules,  \* the rows of the table student_schedules
    calls          \* the calls of add_student_schedule and their positions

vars == <<pc, day_i, now, padYear, hashSeed, parsed_dates, user_data, schedule,
          text, parsed, request, response, student_schedules, calls>>

----------------------------------------------------------------------------
(* Characters and strings *)

\* the printable ASCII characters in code-point order, 32 .. 126; the
\* characters that need escaping never occur in the inputs and are left out
AsciiPrintable ==
    <<" ", "!", "QUOTE", "#", "$", "%", "&", "'", "(", ")", "*", "+", ",",
      "-", ".", "/", "0", "1", "2", "3", "4", "5", "6", "7", "8", "9", ":",
      ";", "<", "=", ">", "?", "@", "A", "B", "C", "D", "E", "F", "G", "H",
      "I", "J", "K", "L", "M", "N", "O", "P", "Q", "R", "S", "T", "U", "V",
      "W", "X", "Y", "Z", "[", "BACKSLASH", "]", "^", "_", "BACKTICK", "a", "b",
      "c", "d", "e", "f", "g", "h", "i", "j", "k", "l", "m", "n", "o", "p",
      "q", "r", "s", "t", "u", "v", "w", "x", "y", "z", "{", "|", "}", "~">>

NewLine == "\n"

OrdTable ==
    LET Numbered(chars) ==
            [c \in {chars[i] : i \in 1..Len(chars)} \cup {NewLine} |->
                IF c = NewLine THEN 10
                ELSE 31 + (CHOOSE i \in 1..Len(chars) : chars[i] = c)]
    IN  Numbered(AsciiPrintable)

\* ord(c); 0 for the absent character past the end of a string
Ord(c) ==
    LET In(table) == IF c \in DOMAIN table THEN table[c] ELSE 0
    IN  In(OrdTable)

Chr(n) == AsciiPrintable[n - 31]

IsDigit(c) == Ord(c) \in 48..57
IsUpper(c) == Ord(c) \in 65..90
IsLower(c) == Ord(c) \in 97..122
IsAlpha(c) == Ord(c) \in (65..90) \cup (97..122)
\* regex \w and \s on the characters above
IsWord(c) == Ord(c) \in (65..90) \cup (97..122) \cup (48..57) \cup {95}
IsSpace(c) == c = " " \/ c = NewLine

LowerChar(c) ==
    LET Shifted(n) == IF n \in 65..90 THEN Chr(n + 32) ELSE c IN Shifted(Ord(c))
UpperChar(c) ==
    LET Shifted(n) == IF n \in 97..122 THEN Chr(n - 32) ELSE c IN Shifted(Ord(c))
\* str.lower(), str.upper()
Lower(s) == [i \in 1..Len(s) |-> LowerChar(s[i])]
Upper(s) == [i \in 1..Len(s) |-> UpperChar(s[i])]

DigitVal(c) == Ord(c) - 48
DigitChr(n) == Chr(48 + n)

\* Python's < on str: lexicographic by code point
RECURSIVE StrLess(_, _)
StrLess(a, b) ==
    IF b = <<>> THEN FALSE
    ELSE IF a = <<>> THEN TRUE
    ELSE LET Before(m, n) == IF m # n THEN m < n ELSE StrLess(Tail(a), Tail(b))
         IN  Before(Ord(Head(a)), Ord(Head(b)))

\* str.strip() on blanks
LStrip(s) ==
    LET From(solid) ==
            IF solid = {} THEN <<>>
            ELSE SubSeq(s, CHOOSE k \in solid : \A j \in solid : k <= j, Len(s))
    IN  From({k \in 1..Len(s) : ~IsSpace(s[k])})
RStrip(s) ==
    LET UpTo(solid) ==
            IF solid = {} THEN <<>>
            ELSE SubSeq(s, 1, CHOOSE k \in solid : \A j \in solid : j <= k)
    IN  UpTo({k \in 1..Len(s) : ~IsSpace(s[k])})
Strip(s) == RStrip(LStrip(s))

RECURSIVE DecimalValue(_)
DecimalValue(s) ==
    IF s = <<>> THEN 0
    ELSE 10 * DecimalValue(SubSeq(s, 1, Len(s) - 1)) + DigitVal(s[Len(s)])

\* the decimal digits of a natural number
RECURSIVE Decimal(_)
Decimal(n) ==
    IF n < 10 THEN <<DigitChr(n)>>
    ELSE Append(Decimal(n \div 10), DigitChr(n % 10))

RECURSIVE ZeroFill(_, _)
ZeroFill(s, width) ==
    IF Len(s) >= width THEN s ELSE ZeroFill(<<"0">> \o s, width)

\* format(n, "02d"): the sign counts towards the width
Format02d(n) ==
    IF n < 0 THEN <<"-">> \o ZeroFill(Decimal(0 - n), 1)
    ELSE ZeroFill(Decimal(n), 2)

----------------------------------------------------------------------------
(* The proleptic Gregorian calendar of datetime *)

IsLeap(y) == y % 4 = 0 /\ (y % 100 # 0 \/ y % 400 = 0)

DaysInMonthTable == <<31, 28, 31, 30, 31, 30, 31, 31, 30, 31, 30, 31>>

DaysInMonth(y, m) ==
    IF m = 2 /\ IsLeap(y) THEN 29 ELSE DaysInMonthTable[m]

RECURSIVE DaysBeforeMonth(_, _)
DaysBeforeMonth(y, m) ==
    IF m = 1 THEN 0 ELSE DaysBeforeMonth(y, m - 1) + DaysInMonth(y, m - 1)

DaysBeforeYear(y) ==
    (y - 1) * 365 + (y - 1) \div 4 - (y - 1) \div 100 + (y - 1) \div 400

\* date.toordinal(): 0001-01-01 is day 1
ToOrdinal(d) == DaysBeforeYear(d[1]) + DaysBeforeMonth(d[1], d[2]) + d[3]

\* date.fromordinal()
FromOrdinal(n) ==
    LET n0   == n - 1
        n400 == n0 \div 146097
        r400 == n0 % 146097
        n100 == r400 \div 36524
        r100 == r400 % 36524
        n4   == r100 \div 1461
        r4   == r100 % 1461
        n1   == r4 \div 365
        r1   == r4 % 365
        year == n400 * 400 + n100 * 100 + n4 * 4 + n1 + 1
        m    == CHOOSE k \in 1..12 :
                   /\ DaysBeforeMonth(year, k) <= r1
                   /\ r1 < DaysBeforeMonth(year, k) + DaysInMonth(year, k)
    IN  IF n1 = 4 \/ n100 = 4 THEN <<year - 1, 12, 31>>
        ELSE <<year, m, r1 - DaysBeforeMonth(year, m) + 1>>

\* datetime.weekday(): Monday is 0
Weekday(d) == (ToOrdinal(d) + 6) % 7

SecondsPerDay == 86400

\* datetime + timedelta(days=i): the time of day is kept
PlusDays(dt, i) == [date |-> FromOrdinal(ToOrdinal(dt.date) + i), tod |-> dt.tod]

\* (a - b).days for two datetimes: a timedelta is normalised so that its
\* seconds are in 0 .. 86399, hence days is the floor
DeltaDays(a, b) ==
    LET secs == (ToOrdinal(a.date) - ToOrdinal(b.date)) * SecondsPerDay
                    + a.tod - b.tod
    IN  IF secs >= 0 THEN secs \div SecondsPerDay
        ELSE 0 - ((0 - secs + SecondsPerDay - 1) \div SecondsPerDay)

\* strftime('%Y-%m-%d'): %Y is left to the C library, which pads the year to
\* four digits on some platforms and not on others
Strftime(d, pad) ==
    (IF pad THEN ZeroFill(Decimal(d[1]), 4) ELSE Decimal(d[1]))
        \o <<"-">> \o ZeroFill(Decimal(d[2]), 2)
        \o <<"-">> \o ZeroFill(Decimal(d[3]), 2)

----------------------------------------------------------------------------
(* datetime.strptime and validate_and_format_date *)

\* Python's None; no str value equals it
None == <<"None">>

\* calendar.month_name of the C locale, lower-cased (strptime matches
\* ignoring case)
MonthNames ==
    <<<<"j", "a", "n", "u", "a", "r", "y">>,
      <<"f", "e", "b", "r", "u", "a", "r", "y">>,
      <<"m", "a", "r", "c", "h">>,
      <<"a", "p", "r", "i", "l">>,
      <<"m", "a", "y">>,
      <<"j", "u", "n", "e">>,
      <<"j", "u", "l", "y">>,
      <<"a", "u", "g", "u", "s", "t">>,
      <<"s", "e", "p", "t", "e", "m", "b", "e", "r">>,
      <<"o", "c", "t", "o", "b", "e", "r">>,
      <<"n", "o", "v", "e", "m", "b", "e", "r">>,
      <<"d", "e", "c", "e", "m", "b", "e", "r">>>>

\* calendar.month_abbr
MonthAbbrs == [m \in 1..12 |-> SubSeq(MonthNames[m], 1, 3)]

\* does the string s continue at pos with word w, ignoring case
StartsWithAt(s, pos, w) ==
    /\ pos + Len(w) - 1 <= Len(s)
    /\ \A i \in 1..Len(w) :
           Cardinality({LowerChar(c) : c \in {s[pos + i - 1], w[i]}}) = 1

CharAt(s, pos) == IF pos >= 1 /\ pos <= Len(s) THEN s[pos] ELSE "NONE"
DigitAt(s, pos) == pos >= 1 /\ pos <= Len(s) /\ IsDigit(s[pos])

RECURSIVE SpaceRun(_, _)
\* the length of the run of whitespace that starts at pos
SpaceRun(s, pos) ==
    IF pos <= Len(s) /\ IsSpace(s[pos]) THEN 1 + SpaceRun(s, pos + 1) ELSE 0

Cand(len, field, val) == [len |-> len, field |-> field, val |-> val]

\* The alternatives that a format item can consume at pos, in the order in
\* which the regular expression that strptime builds tries them:
\*   %m  1[0-2]|0[1-9]|[1-9]          %d  3[01]|[12]\d|0[1-9]|[1-9]| [1-9]
\*   %Y  \d\d\d\d                     %B, %b  the month names
\*   a blank  \s+                      any other character  itself
Cands(item, s, pos) ==
    LET \* the month whose name follows, out of those that do
        Month(names, found) ==
            IF found = {} THEN <<>>
            ELSE LET m == CHOOSE k \in found : \A j \in found : k <= j
                 IN  <<Cand(Len(names[m]), "m", m)>>
        Named(names) ==
            Month(names, {k \in 1..12 : StartsWithAt(s, pos, names[k])})
        Blanks(n) == [i \in 1..n |-> Cand(n + 1 - i, "", 0)]
        \* c1, c2: the characters at pos and behind it; d1, d2: they are
        \* digits; v1, v2: their values
        Of(c1, c2, d1, d2, v1, v2) ==
            IF item = "%m" THEN
                (IF c1 = "1" /\ d2 /\ v2 <= 2
                    THEN <<Cand(2, "m", 10 + v2)>> ELSE <<>>)
                \o (IF c1 = "0" /\ d2 /\ c2 # "0"
                    THEN <<Cand(2, "m", v2)>> ELSE <<>>)
                \o (IF d1 /\ c1 # "0" THEN <<Cand(1, "m", v1)>> ELSE <<>>)
            ELSE IF item = "%d" THEN
                (IF c1 = "3" /\ d2 /\ v2 <= 1
                    THEN <<Cand(2, "d", 30 + v2)>> ELSE <<>>)
                \o (IF (c1 = "1" \/ c1 = "2") /\ d2
                    THEN <<Cand(2, "d", 10 * v1 + v2)>> ELSE <<>>)
                \o (IF c1 = "0" /\ d2 /\ c2 # "0"
                    THEN <<Cand(2, "d", v2)>> ELSE <<>>)
                \o (IF d1 /\ c1 # "0" THEN <<Cand(1, "d", v1)>> ELSE <<>>)
                \o (IF c1 = " " /\ d2 /\ c2 # "0"
                    THEN <<Cand(2, "d", v2)>> ELSE <<>>)
            ELSE IF item = "%Y" THEN
                IF \A k \in 0..3 : DigitAt(s, pos + k)
                THEN <<Cand(4, "Y", 1000 * DigitVal(s[pos]) + 100 * DigitVal(s[pos + 1])
                                      + 10 * DigitVal(s[pos + 2]) + DigitVal(s[pos + 3]))>>
                ELSE <<>>
            ELSE IF item = "%B" THEN
                Named(MonthNames)
            ELSE IF item = "%b" THEN
                Named(MonthAbbrs)
            ELSE IF item = " " THEN
                Blanks(SpaceRun(s, pos))
            ELSE
                IF StartsWithAt(s, pos, <<item>>) THEN <<Cand(1, "", 0)>> ELSE <<>>
    IN  Of(CharAt(s, pos), CharAt(s, pos + 1), DigitAt(s, pos), DigitAt(s, pos + 1),
           DigitVal(CharAt(s, pos)), DigitVal(CharAt(s, pos + 1)))

NoMatch == [ok |-> FALSE, end |-> 0, f |-> [Y |-> 0, m |-> 0, d |-> 0]]

RECURSIVE FormatMatch(_, _, _, _, _)
RECURSIVE FormatTry(_, _, _, _, _, _)
\* re.match of the format's regular expression: the first match in
\* backtracking order
FormatMatch(fmt, k, s, pos, acc) ==
    IF k > Len(fmt) THEN [ok |-> TRUE, end |-> pos, f |-> acc]
    ELSE FormatTry(fmt, k, s, pos, acc, Cands(fmt[k], s, pos))

FormatTry(fmt, k, s, pos, acc, cs) ==
    IF cs = <<>> THEN NoMatch
    ELSE LET Or(r) == IF r.ok THEN r ELSE FormatTry(fmt, k, s, pos, acc, Tail(cs))
             With(c) ==
                 Or(FormatMatch(fmt, k + 1, s, pos + c.len,
                        IF c.field = "" THEN acc ELSE [acc EXCEPT ![c.field] = c.val]))
         IN  With(Head(cs))

\* datetime.strptime(s, fmt): [ok |-> FALSE] stands for ValueError (no match,
\* unconverted data, or a date that does not exist)
Strptime(s, fmt) ==
    LET Found(r) ==
            IF ~r.ok \/ r.end # Len(s) + 1 THEN [ok |-> FALSE, date |-> <<0, 0, 0>>]
            ELSE IF r.f.Y < 1 \/ r.f.d > DaysInMonth(r.f.Y, r.f.m)
                 THEN [ok |-> FALSE, date |-> <<0, 0, 0>>]
            ELSE [ok |-> TRUE, date |-> <<r.f.Y, r.f.m, r.f.d>>]
    IN  Found(FormatMatch(fmt, 1, s, 1, [Y |-> 1900, m |-> 1, d |-> 1]))

IsoFormat == <<"%Y", "-", "%m", "-", "%d">>

date_formats ==
    << <<"%m", "/", "%d", "/", "%Y">>,
       <<"%m", "-", "%d", "-", "%Y">>,
       IsoFormat,
       <<"%B", " ", "%d", ",", " ", "%Y">>,
       <<"%d", " ", "%B", " ", "%Y">>,
       <<"%b", " ", "%d", ",", " ", "%Y">>,
       <<"%d", " ", "%b", " ", "%Y">>,
       <<"%m", "/", "%d">>,
       <<"%B", " ", "%d">>,
       <<"%b", " ", "%d">> >>

HasYear(fmt) == \E i \in 1..Len(fmt) : fmt[i] = "%Y"

RECURSIVE TryFormats(_, _, _, _)
TryFormats(date_str, k, current_year, pad) ==
    IF k > Len(date_formats) THEN None
    ELSE LET Parsed(r) ==
                 IF r.ok THEN Strftime(r.date, pad)
                 ELSE TryFormats(date_str, k + 1, current_year, pad)
             \* a format without %Y: the current year is added to both
             Try(fmt, whole) ==
                 Parsed(Strptime(
                     IF whole THEN date_str
                     ELSE date_str \o <<",", " ">> \o Decimal(current_year),
                     IF whole THEN fmt ELSE fmt \o <<",", " ", "%Y">>))
             TryFormat(fmt) == Try(fmt, HasYear(fmt))
         IN  TryFormat(date_formats[k])

\* validate_and_format_date with a year-boundary correction that the code
\* does not make: the year-less strings are read in the previous year
validate_and_format_date_year_rollover(date_str, current_year, pad) ==
    TryFormats(date_str, 1, current_year - 1, pad)

\* validate_and_format_date(date_str), with the year of datetime.now() and
\* the platform's strftime as parameters
validate_and_format_date(date_str, current_year, pad) ==
    TryFormats(date_str, 1, current_year, pad)

----------------------------------------------------------------------------
(* Regular expressions of the re module, as far as parser.py uses them *)

\* A pattern is a sequence of atoms.  An atom is a character class with a
\* repetition lo..hi, greedy or lazy, or a zero-width assertion.  All the
\* patterns are used with re.IGNORECASE: a SET holds lower-case characters.

Many == 1000

Atom(kind, set, lo, hi, lazy) ==
    [kind |-> kind, set |-> set, lo |-> lo, hi |-> hi, lazy |-> lazy]

RxDigits(lo, hi) == Atom("DIGIT", {}, lo, hi, FALSE)    \* \d{lo,hi}
RxWords == Atom("WORD", {}, 1, Many, FALSE)             \* \w+
RxSpaces(lo) == Atom("SPACE", {}, lo, Many, FALSE)      \* \s* and \s+
RxLit(c) == Atom("SET", {c}, 1, 1, FALSE)               \* a literal character
RxOpt(c) == Atom("SET", {c}, 0, 1, FALSE)               \* c?
RxSet(set, lo, hi) == Atom("SET", set, lo, hi, FALSE)   \* [...]{lo,hi}
RxBoundary == Atom("BOUNDARY", {}, 0, 0, FALSE)         \* \b
RxStart == Atom("START", {}, 0, 0, FALSE)               \* ^
RxEndOrNewline == Atom("END", {}, 0, 0, FALSE)          \* (?:\n|$)
RxLazyAny(lo) == Atom("ANY", {}, lo, Many, TRUE)        \* .*? and .+?

\* a literal word, one atom
RxWord(w) ==
    << [kind |-> "STRING", set |-> {}, lo |-> Len(w), hi |-> Len(w),
        lazy |-> FALSE, word |-> w] >>

ClassHas(a, c) ==
    IF a.kind = "DIGIT" THEN IsDigit(c)
    ELSE IF a.kind = "WORD" THEN IsWord(c)
    ELSE IF a.kind = "SPACE" THEN IsSpace(c)
    ELSE IF a.kind = "ANY" THEN c # NewLine
    ELSE LowerChar(c) \in a.set

\* \b holds at pos between a word character and none
AtBoundary(s, pos) ==
    Cardinality({p \in {pos - 1, pos} :
                    p >= 1 /\ p <= Len(s) /\ IsWord(s[p])}) = 1

\* how many characters from pos on are in the class of atom a, at most a.hi
Run(a, s, pos) ==
    LET Least(stops) == CHOOSE n \in stops : \A j \in stops : n <= j
        UpTo(most) ==
            Least({n \in 0..most : n = most \/ ~ClassHas(a, s[pos + n])})
    IN  UpTo(IF a.hi < Len(s) - pos + 1 THEN a.hi ELSE Len(s) - pos + 1)

RxFail == [ok |-> FALSE, ends |-> <<>>]

RECURSIVE RxMatch(_, _, _, _)
RECURSIVE RxRepeat(_, _, _, _, _)
\* Match the atoms k.. of pat at pos, backtracking as re does.  ends lists
\* the position behind each of these atoms in the first match found.
RxMatch(pat, k, s, pos) ==
    IF k > Len(pat) THEN [ok |-> TRUE, ends |-> <<>>]
    ELSE LET \* the atom took width characters: the rest of the pattern follows
             Then(width, rest) ==
                 IF rest.ok THEN [ok |-> TRUE, ends |-> <<pos + width>> \o rest.ends]
                 ELSE RxFail
             \* an atom of a fixed width
             Fixed(holds, width) ==
                 IF holds THEN Then(width, RxMatch(pat, k + 1, s, pos + width))
                 ELSE RxFail
             \* (?:\n|$) consumes the newline when there is one
             End(newline) ==
                 Fixed(newline \/ pos = Len(s) + 1, IF newline THEN 1 ELSE 0)
             \* a repeated class, of which n characters follow
             Repeated(a, n) ==
                 IF n >= a.lo THEN RxRepeat(pat, k, s, pos, n) ELSE RxFail
             At(a) ==
                 CASE a.kind = "BOUNDARY" -> Fixed(AtBoundary(s, pos), 0)
                   [] a.kind = "START" -> Fixed(pos = 1, 0)
                   [] a.kind = "END" -> End(pos <= Len(s) /\ s[pos] = NewLine)
                   [] a.kind = "STRING" ->
                        Fixed(StartsWithAt(s, pos, a.word), Len(a.word))
                   [] OTHER -> Repeated(a, Run(a, s, pos))
         IN  At(pat[k])

\* atom k can take a.lo .. n characters at pos.  A greedy atom tries cnt
\* characters and then fewer; a lazy one takes the fewest with which the
\* rest of the pattern matches.
RxRepeat(pat, k, s, pos, cnt) ==
    LET a == pat[k]
        Fits(c) == RxMatch(pat, k + 1, s, pos + c).ok
        least == CHOOSE c \in a.lo..cnt :
                     Fits(c) /\ \A d \in a.lo..(c - 1) : ~Fits(d)
        \* the atom takes c characters and rest is the match behind them
        Taking(c, rest) == [ok |-> TRUE, ends |-> <<pos + c>> \o rest.ends]
        \* the greatest of the counts below cnt after which the pattern goes on
        Greatest(fits) ==
            IF fits = {} THEN RxFail
            ELSE LET Of(c) == Taking(c, RxMatch(pat, k + 1, s, pos + c))
                 IN  Of(CHOOSE c \in fits : \A d \in fits : d <= c)
        Greedy(rest) ==
            IF rest.ok THEN Taking(cnt, rest)
            ELSE Greatest({c \in a.lo..(cnt - 1) : Fits(c)})
    IN  CASE a.lazy /\ (\E c \in a.lo..cnt : Fits(c)) ->
                [ok |-> TRUE,
                 ends |-> <<pos + least>> \o RxMatch(pat, k + 1, s, pos + least).ends]
          [] a.lazy /\ ~(\E c \in a.lo..cnt : Fits(c)) -> RxFail
          [] OTHER -> Greedy(RxMatch(pat, k + 1, s, pos + cnt))

\* the match of one of the alternatives alts at pos, the first in order
RECURSIVE RxMatchAny(_, _, _, _)
RxMatchAny(alts, j, s, pos) ==
    IF j > Len(alts) THEN [ok |-> FALSE, alt |-> 0, start |-> pos, ends |-> <<>>]
    ELSE LET Or(r) ==
                 IF r.ok THEN [ok |-> TRUE, alt |-> j, start |-> pos, ends |-> r.ends]
                 ELSE RxMatchAny(alts, j + 1, s, pos)
         IN  Or(RxMatch(alts[j], 1, s, pos))

MatchEnd(r) == IF r.ends = <<>> THEN r.start ELSE r.ends[Len(r.ends)]

RECURSIVE FindAllFrom(_, _, _)
\* the non-overlapping matches of re.finditer from pos on, left to right
FindAllFrom(alts, s, pos) ==
    LET \* the match r and the position behind it; an empty match moves on
        \* by one character
        Onward(r, end) ==
            <<r>> \o FindAllFrom(alts, s, IF end > r.start THEN end ELSE r.start + 1)
        Leftmost(found) ==
            IF found = {} THEN <<>>
            ELSE LET r == CHOOSE m \in found : \A n \in found : m.start <= n.start
                 IN  Onward(r, MatchEnd(r))
        Matches(tried) == Leftmost({m \in tried : m.ok})
    IN  Matches({RxMatchAny(alts, 1, s, p) : p \in pos..(Len(s) + 1)})

\* re.findall of a pattern without groups: the matched substrings
FindAll(pat, s) ==
    LET Matched(m) == SubSeq(s, m.start, MatchEnd(m) - 1)
        Substrings(ms) == [k \in 1..Len(ms) |-> Matched(ms[k])]
    IN  Substrings(FindAllFrom(<<pat>>, s, 1))

\* re.search(pat, s) finds a match
Search(pat, s) == \E pos \in 1..(Len(s) + 1) : RxMatch(pat, 1, s, pos).ok

----------------------------------------------------------------------------
(* parser.py *)

\* does s contain w
Contains(s, w) ==
    \E pos \in 1..(Len(s) - Len(w) + 1) : SubSeq(s, pos, pos + Len(w) - 1) = w

RECURSIVE Flatten(_)
\* the concatenation of a sequence of sequences
Flatten(ss) == IF ss = <<>> THEN <<>> ELSE Head(ss) \o Flatten(Tail(ss))

RECURSIVE CollapseRange(_, _, _)
\* re.sub(r'\s+', ' ', s) on s[lo..hi]: every run of blanks leaves one blank
\* where it starts
CollapseRange(s, lo, hi) ==
    IF lo > hi THEN <<>>
    ELSE IF lo = hi THEN
        IF ~IsSpace(s[lo]) THEN <<s[lo]>>
        ELSE IF lo = 1 \/ ~IsSpace(s[lo - 1]) THEN <<" ">> ELSE <<>>
    ELSE LET mid == (lo + hi) \div 2
         IN  CollapseRange(s, lo, mid) \o CollapseRange(s, mid + 1, hi)

CollapseSpaces(s) == CollapseRange(s, 1, Len(s))

RECURSIVE Ascending(_)
\* the strings of a set in ascending order
Ascending(S) ==
    IF S = {} THEN <<>>
    ELSE LET least == CHOOSE x \in S : \A y \in S : x = y \/ StrLess(x, y)
         IN  <<least>> \o Ascending(S \ {least})

Reverse(q) == [k \in 1..Len(q) |-> q[Len(q) + 1 - k]]

\* list(set(strings)): a set of str is iterated in the order of the hashes,
\* which the process draws at its start; two of the orders are modelled
ListOfSet(S, seed) == IF seed = 0 THEN Ascending(S) ELSE Reverse(Ascending(S))

Range(q) == {q[k] : k \in 1..Len(q)}

date_patterns ==
    << <<RxDigits(1, 2), RxLit("/"), RxDigits(1, 2), RxLit("/"), RxDigits(4, 4)>>,
       <<RxDigits(1, 2), RxLit("-"), RxDigits(1, 2), RxLit("-"), RxDigits(4, 4)>>,
       <<RxDigits(4, 4), RxLit("-"), RxDigits(1, 2), RxLit("-"), RxDigits(1, 2)>>,
       <<RxBoundary, RxWords, RxLit(" "), RxDigits(1, 2), RxLit(","), RxLit(" "),
         RxDigits(4, 4), RxBoundary>>,
       <<RxBoundary, RxDigits(1, 2), RxLit(" "), RxWords, RxLit(" "),
         RxDigits(4, 4), RxBoundary>>,
       <<RxBoundary, RxWords, RxLit(" "), RxDigits(1, 2), RxBoundary>> >>

\* the substrings that the date patterns match, pattern after pattern
DateMatches(s) ==
    Flatten([k \in 1..Len(date_patterns) |-> FindAll(date_patterns[k], s)])

\* extract_dates with the matches kept as a list, list(set(dates)) left out
extract_dates_without_set(s, current_year, pad, seed) ==
    LET Valid(v) == v # None /\ v # <<>>
        Validated(dates) ==
            SelectSeq([k \in 1..Len(dates) |->
                          validate_and_format_date(dates[k], current_year, pad)],
                      Valid)
    IN  Validated(DateMatches(s))

\* extract_dates(text), with the current year, the platform's strftime and
\* the hash seed as parameters
extract_dates(s, current_year, pad, seed) ==
    LET Valid(v) == v # None /\ v # <<>>
        Validated(dates) ==
            SelectSeq([k \in 1..Len(dates) |->
                          validate_and_format_date(dates[k], current_year, pad)],
                      Valid)
    IN  Validated(ListOfSet(Range(DateMatches(s)), seed))

Letters == {Chr(n) : n \in 97..122}

course_patterns ==
    << <<RxBoundary, RxSet(Letters, 2, 4), RxSet({"-", " "}, 0, 1), RxDigits(3, 4),
         RxSet(Letters, 0, 1), RxBoundary>>,
       <<RxBoundary, RxSet(Letters, 2, 4), RxLit(" "), RxDigits(3, 4), RxBoundary>> >>

\* (?:course|class):\s*(.+?)(?:\n|$)
course_name_pattern ==
    << RxWord(<<"c", "o", "u", "r", "s", "e">>) \o <<RxLit(":"), RxSpaces(0), RxLazyAny(1), RxEndOrNewline>>,
       RxWord(<<"c", "l", "a", "s", "s">>) \o <<RxLit(":"), RxSpaces(0), RxLazyAny(1), RxEndOrNewline>> >>

\* the text of the atoms from..to of a match
Group(s, r, from, to) ==
    SubSeq(s, IF from = 1 THEN r.start ELSE r.ends[from - 1], r.ends[to] - 1)

extract_courses(s, seed) ==
    LET Uppers(ms) == [j \in 1..Len(ms) |-> Upper(ms[j])]
        Names(names) == [k \in 1..Len(names) |-> Group(s, names[k], 4, 4)]
        courses == Flatten([k \in 1..Len(course_patterns) |->
                               Uppers(FindAll(course_patterns[k], s))])
    IN  [codes |-> ListOfSet(Range(courses), seed),
         names |-> Names(FindAllFrom(course_name_pattern, s, 1))]

deadline_keywords ==
    << <<"d", "u", "e">>,
       <<"d", "e", "a", "d", "l", "i", "n", "e">>,
       <<"a", "s", "s", "i", "g", "n", "m", "e", "n", "t">>,
       <<"e", "x", "a", "m">>,
       <<"t", "e", "s", "t">>,
       <<"q", "u", "i", "z">>,
       <<"p", "r", "o", "j", "e", "c", "t">>,
       <<"p", "a", "p", "e", "r">>,
       <<"p", "r", "e", "s", "e", "n", "t", "a", "t", "i", "o", "n">>,
       <<"f", "i", "n", "a", "l">>,
       <<"m", "i", "d", "t", "e", "r", "m">> >>

\* re.split(r'[.!?]', s)
RECURSIVE SplitSentences(_)
SplitSentences(s) ==
    LET At(first) ==
            <<SubSeq(s, 1, first - 1)>>
                \o SplitSentences(SubSeq(s, first + 1, Len(s)))
        Split(stops) ==
            IF stops = {} THEN <<s>>
            ELSE At(CHOOSE k \in stops : \A j \in stops : k <= j)
    IN  Split({k \in 1..Len(s) : s[k] \in {".", "!", "?"}})

\* determine_deadline_type with the project keywords checked before the
\* exam keywords
determine_deadline_type_project_first(sentence) ==
    LET TypeOf(sentence_lower) ==
            LET HasOne(words) == \E w \in words : Contains(sentence_lower, w)
            IN  IF HasOne({<<"p", "r", "o", "j", "e", "c", "t">>, <<"p", "a", "p", "e", "r">>}) THEN "project"
                ELSE IF HasOne({<<"e", "x", "a", "m">>, <<"t", "e", "s", "t">>, <<"f", "i", "n", "a", "l">>, <<"m", "i", "d", "t", "e", "r", "m">>}) THEN "exam"
                ELSE IF HasOne({<<"a", "s", "s", "i", "g", "n", "m", "e", "n", "t">>, <<"h", "o", "m", "e", "w", "o", "r", "k">>, <<"h", "w">>}) THEN "assignment"
                ELSE IF HasOne({<<"q", "u", "i", "z">>}) THEN "quiz"
                ELSE IF HasOne({<<"p", "r", "e", "s", "e", "n", "t", "a", "t", "i", "o", "n">>, <<"p", "r", "e", "s", "e", "n", "t">>}) THEN "presentation"
                ELSE "assignment"
    IN  TypeOf(Lower(sentence))

determine_deadline_type(sentence) ==
    LET TypeOf(sentence_lower) ==
            LET HasOne(words) == \E w \in words : Contains(sentence_lower, w)
            IN  IF HasOne({<<"e", "x", "a", "m">>, <<"t", "e", "s", "t">>, <<"f", "i", "n", "a", "l">>, <<"m", "i", "d", "t", "e", "r", "m">>})
                THEN "exam"
                ELSE IF HasOne({<<"a", "s", "s", "i", "g", "n", "m", "e", "n", "t">>, <<"h", "o", "m", "e", "w", "o", "r", "k">>, <<"h", "w">>})
                THEN "assignment"
                ELSE IF HasOne({<<"p", "r", "o", "j", "e", "c", "t">>, <<"p", "a", "p", "e", "r">>})
                THEN "project"
                ELSE IF HasOne({<<"q", "u", "i", "z">>}) THEN "quiz"
                ELSE IF HasOne({<<"p", "r", "e", "s", "e", "n", "t", "a", "t", "i", "o", "n">>, <<"p", "r", "e", "s", "e", "n", "t">>})
                THEN "presentation"
                ELSE "assignment"
    IN  TypeOf(Lower(sentence))

\* the labels of prefixes_to_remove, in its order
prefixes_to_remove ==
    << <<"d", "u", "e">>,
       <<"d", "e", "a", "d", "l", "i", "n", "e">>,
       <<"a", "s", "s", "i", "g", "n", "m", "e", "n", "t">>,
       <<"e", "x", "a", "m">>,
       <<"t", "e", "s", "t">>,
       <<"q", "u", "i", "z">>,
       <<"p", "r", "o", "j", "e", "c", "t">> >>

\* ^.*?label:?\s*
PrefixPattern(label) ==
    <<RxStart, Atom("ANY", {}, 0, Many, TRUE)>> \o RxWord(label)
        \o <<RxOpt(":"), RxSpaces(0)>>

\* re.sub(prefix, '', title): the pattern can match at the start only
RemovePrefix(title, label) ==
    LET Without(r) ==
            IF r.ok THEN SubSeq(title, r.ends[Len(r.ends)], Len(title)) ELSE title
    IN  Without(RxMatch(PrefixPattern(label), 1, title, 1))

RECURSIVE RemovePrefixes(_, _)
RemovePrefixes(title, k) ==
    IF k > Len(prefixes_to_remove) THEN title
    ELSE LET From(shorter) ==
                 IF Len(shorter) >= 0 THEN RemovePrefixes(shorter, k + 1) ELSE title
         IN  From(RemovePrefix(title, prefixes_to_remove[k]))

UntitledDeadline == <<"U", "n", "t", "i", "t", "l", "e", "d", " ", "D", "e", "a", "d", "l", "i", "n", "e">>

extract_deadline_title(sentence) ==
    LET Named(limited) == IF limited # <<>> THEN limited ELSE UntitledDeadline
        Limited(title) ==
            Named(IF Len(title) > 100
                  THEN SubSeq(title, 1, 97) \o <<".", ".", ".">> ELSE title)
        Cleaned(stripped) == Limited(Strip(CollapseSpaces(stripped)))
    IN  Cleaned(RemovePrefixes(Strip(sentence), 1))

\* the deadlines of one sentence
SentenceDeadlines(sentence, current_year, pad, seed) ==
    LET Deadlines(sentence_dates, deadline_type, title, description) ==
            [k \in 1..Len(sentence_dates) |->
                [date |-> sentence_dates[k], type |-> deadline_type,
                 title |-> title, description |-> description,
                 source |-> "parsed"]]
        HasKeywordIn(sentence_lower) ==
            \E k \in 1..Len(deadline_keywords) :
                Contains(sentence_lower, deadline_keywords[k])
    IN  IF HasKeywordIn(Lower(sentence))
        THEN Deadlines(extract_dates(sentence, current_year, pad, seed),
                       determine_deadline_type(sentence),
                       extract_deadline_title(sentence),
                       Strip(sentence))
        ELSE <<>>

extract_deadlines(s, current_year, pad, seed) ==
    LET Of(sentences) ==
            Flatten([k \in 1..Len(sentences) |->
                        SentenceDeadlines(sentences[k], current_year, pad, seed)])
    IN  Of(SplitSentences(s))

DayLetters == {"m", "t", "w", "r", "f", "s", "u"}

\* \d{1,2}:\d{2}\s*[AaPp][Mm]
ClockPattern ==
    <<RxDigits(1, 2), RxLit(":"), RxDigits(2, 2), RxSpaces(0),
      RxSet({"a", "p"}, 1, 1), RxLit("m")>>

\* ([MTWRFSU]+)\s+(clock)\s*(?:-\s*(clock))? : with the optional group and,
\* when that does not match, without it
schedule_pattern ==
    << <<RxSet(DayLetters, 1, Many), RxSpaces(1)>> \o ClockPattern
           \o <<RxSpaces(0), RxLit("-"), RxSpaces(0)>> \o ClockPattern,
       <<RxSet(DayLetters, 1, Many), RxSpaces(1)>> \o ClockPattern
           \o <<RxSpaces(0)>> >>

extract_class_times(s) ==
    LET Time(r) ==
            [days |-> Group(s, r, 1, 1),
             start_time |-> Group(s, r, 3, 8),
             end_time |-> IF r.alt = 1 THEN Group(s, r, 12, 17) ELSE None]
        Times(matches) == [k \in 1..Len(matches) |-> Time(matches[k])]
    IN  Times(FindAllFrom(schedule_pattern, s, 1))

\* parse_text_content that returns the dictionary as it is initialised, with
\* 'courses' an empty list, when the text is empty
parse_text_content_initial_courses(s, current_year, pad, seed) ==
    LET Parsed(cleaned) ==
            [dates |-> extract_dates(cleaned, current_year, pad, seed),
             courses |-> IF cleaned = <<>> THEN <<>>
                         ELSE extract_courses(cleaned, seed),
             deadlines |-> extract_deadlines(cleaned, current_year, pad, seed),
             class_times |-> extract_class_times(cleaned)]
        Spaced(c) == IF c = NewLine THEN " " ELSE c
    IN  Parsed(CollapseSpaces([k \in 1..Len(s) |-> Spaced(s[k])]))

\* parse_text_content(text).  '\n' and '\r' become blanks before anything
\* else, so the newline is the only line break that is modelled.
parse_text_content(s, current_year, pad, seed) ==
    LET Parsed(cleaned) ==
            [dates |-> extract_dates(cleaned, current_year, pad, seed),
             courses |-> extract_courses(cleaned, seed),
             deadlines |-> extract_deadlines(cleaned, current_year, pad, seed),
             class_times |-> extract_class_times(cleaned)]
        Spaced(c) == IF c = NewLine THEN " " ELSE c
    IN  Parsed(CollapseSpaces([k \in 1..Len(s) |-> Spaced(s[k])]))

----------------------------------------------------------------------------
(* scheduler.py *)

\* dict.get(key, default)
Get(d, key, default) == IF key \in DOMAIN d THEN d[key] ELSE default

\* Values of a preference as a caller may pass them: an int, a str or None
PyInt(n) == [int |-> n]
PyStr(s) == [str |-> s]
PyNone == [none |-> TRUE]

\* int(v): [ok |-> FALSE] stands for the ValueError or TypeError it raises
ToInt(v) ==
    IF "int" \in DOMAIN v THEN [ok |-> TRUE, val |-> v.int]
    ELSE IF "str" \in DOMAIN v THEN
        LET t      == Strip(v.str)
            signed == t # <<>> /\ (Head(t) = "-" \/ Head(t) = "+")
            digits == IF signed THEN Tail(t) ELSE t
        IN  IF digits # <<>> /\ \A i \in 1..Len(digits) : IsDigit(digits[i])
            THEN [ok |-> TRUE,
                  val |-> IF signed /\ Head(t) = "-" THEN 0 - DecimalValue(digits)
                          ELSE DecimalValue(digits)]
            ELSE [ok |-> FALSE, val |-> 0]
    ELSE [ok |-> FALSE, val |-> 0]

\* f"{hour:02d}:00"
HourStr(hour) == Format02d(hour) \o <<":", "0", "0">>

T1200 == <<"1", "2", ":", "0", "0">>
T1300 == <<"1", "3", ":", "0", "0">>
T1400 == <<"1", "4", ":", "0", "0">>
T1600 == <<"1", "6", ":", "0", "0">>
T1800 == <<"1", "8", ":", "0", "0">>
T1900 == <<"1", "9", ":", "0", "0">>
T1930 == <<"1", "9", ":", "3", "0">>
T2000 == <<"2", "0", ":", "0", "0">>
T2359 == <<"2", "3", ":", "5", "9">>

Study(time, label, duration, description) ==
    [time |-> time, activity |-> <<label>>, type |-> "study",
     duration |-> duration, description |-> description]

\* generate_study_sessions with the second block of the focused style lost
generate_study_sessions_one_block(wakeup, sleep, study_style, day_of_week) ==
    IF study_style = "focused" THEN
        << Study(HourStr(wakeup + 2), "Deep Focus Session 1", 180,
                 "Extended focused study session") >>
    ELSE
        << Study(HourStr(wakeup + 2), "Morning Study Session", 90,
                 "Flexible study session"),
           Study(T1300, "Afternoon Study Session", 60, "Flexible study session"),
           Study(T1600, "Late Afternoon Study", 90, "Flexible study session"),
           Study(T1930, "Evening Review", 45, "Review and light study") >>

\* generate_study_sessions with the evening block of the pomodoro style on
\* every day of the week
generate_study_sessions_evening_always(wakeup, sleep, study_style, day_of_week) ==
    IF study_style = "pomodoro" THEN
        << Study(HourStr(wakeup + 2), "Morning Study Block (4 Pomodoros)", 120,
                 "25min study + 5min break x 4"),
           Study(HourStr(14), "Afternoon Study Block (4 Pomodoros)", 120,
                 "25min study + 5min break x 4"),
           Study(HourStr(19), "Evening Study Block (2 Pomodoros)", 60,
                 "25min study + 5min break x 2") >>
    ELSE IF study_style = "focused" THEN
        << Study(HourStr(wakeup + 2), "Deep Focus Session 1", 180,
                 "Extended focused study session"),
           Study(T1400, "Deep Focus Session 2", 150,
                 "Extended focused study session") >>
    ELSE
        << Study(HourStr(wakeup + 2), "Morning Study Session", 90,
                 "Flexible study session"),
           Study(T1300, "Afternoon Study Session", 60, "Flexible study session"),
           Study(T1600, "Late Afternoon Study", 90, "Flexible study session"),
           Study(T1930, "Evening Review", 45, "Review and light study") >>

\* generate_study_sessions with the last branch taken for 'flexible' only:
\* an unrecognized style gets no session
generate_study_sessions_known_styles(wakeup, sleep, study_style, day_of_week) ==
    IF study_style = "pomodoro" THEN
        << Study(HourStr(wakeup + 2), "Morning Study Block (4 Pomodoros)", 120,
                 "25min study + 5min break x 4"),
           Study(HourStr(14), "Afternoon Study Block (4 Pomodoros)", 120,
                 "25min study + 5min break x 4") >>
        \o (IF day_of_week < 5
            THEN << Study(HourStr(19), "Evening Study Block (2 Pomodoros)", 60,
                          "25min study + 5min break x 2") >>
            ELSE <<>>)
    ELSE IF study_style = "focused" THEN
        << Study(HourStr(wakeup + 2), "Deep Focus Session 1", 180,
                 "Extended focused study session"),
           Study(T1400, "Deep Focus Session 2", 150,
                 "Extended focused study session") >>
    ELSE IF study_style = "flexible" THEN
        << Study(HourStr(wakeup + 2), "Morning Study Session", 90,
                 "Flexible study session"),
           Study(T1300, "Afternoon Study Session", 60, "Flexible study session"),
           Study(T1600, "Late Afternoon Study", 90, "Flexible study session"),
           Study(T1930, "Evening Review", 45, "Review and light study") >>
    ELSE <<>>

generate_study_sessions(wakeup, sleep, study_style, day_of_week) ==
    IF study_style = "pomodoro" THEN
        << Study(HourStr(wakeup + 2), "Morning Study Block (4 Pomodoros)", 120,
                 "25min study + 5min break x 4"),
           Study(HourStr(14), "Afternoon Study Block (4 Pomodoros)", 120,
                 "25min study + 5min break x 4") >>
        \o (IF day_of_week < 5
            THEN << Study(HourStr(19), "Evening Study Block (2 Pomodoros)", 60,
                          "25min study + 5min break x 2") >>
            ELSE <<>>)
    ELSE IF study_style = "focused" THEN
        << Study(HourStr(wakeup + 2), "Deep Focus Session 1", 180,
                 "Extended focused study session"),
           Study(T1400, "Deep Focus Session 2", 150,
                 "Extended focused study session") >>
    ELSE
        << Study(HourStr(wakeup + 2), "Morning Study Session", 90,
                 "Flexible study session"),
           Study(T1300, "Afternoon Study Session", 60, "Flexible study session"),
           Study(T1600, "Late Afternoon Study", 90, "Flexible study session"),
           Study(T1930, "Evening Review", 45, "Review and light study") >>

type_emojis ==
    [exam |-> "MEMO", assignment |-> "PAGE", project |-> "ROCKET",
     quiz |-> "QUESTION", presentation |-> "MICROPHONE"]

\* str.upper() of the deadline types that occur
TypeUpper ==
    [exam |-> "EXAM", assignment |-> "ASSIGNMENT", project |-> "PROJECT",
     quiz |-> "QUIZ", presentation |-> "PRESENTATION", Exam |-> "EXAM",
     lab |-> "LAB"]

UpperOfType(t) == IF t = "" THEN "" ELSE TypeUpper[t]

\* DeadlineActivity with the type left as it is written, not uppercased
DeadlineActivity_type_as_written(deadline) ==
    LET emoji == Get(type_emojis, Get(deadline, "type", ""), "WARNING")
    IN  [time |-> Get(deadline, "time", T2359),
         activity |-> <<emoji, " ", Get(deadline, "type", ""), ": ">>
                          \o Get(deadline, "title", <<>>),
         type |-> "deadline",
         course |-> Get(deadline, "course_code", <<>>),
         description |-> Get(deadline, "description", <<>>),
         priority |-> "high"]

DeadlineActivity(deadline) ==
    LET emoji == Get(type_emojis, Get(deadline, "type", ""), "WARNING")
    IN  [time |-> Get(deadline, "time", T2359),
         activity |-> <<emoji, " ", UpperOfType(Get(deadline, "type", "")), ": ">>
                          \o Get(deadline, "title", <<>>),
         type |-> "deadline",
         course |-> Get(deadline, "course_code", <<>>),
         description |-> Get(deadline, "description", <<>>),
         priority |-> "high"]

RECURSIVE get_deadlines_for_date(_, _, _)
get_deadlines_for_date(date, deadlines, pad) ==
    IF deadlines = <<>> THEN <<>>
    ELSE LET deadline == Head(deadlines)
             rest     == get_deadlines_for_date(date, Tail(deadlines), pad)
         IN  IF "date" \in DOMAIN deadline
                  /\ deadline.date = Strftime(date.date, pad)
             THEN <<DeadlineActivity(deadline)>> \o rest
             ELSE rest

\* ReviewActivity with the same 45 minutes on every review day
ReviewActivity_same_duration(deadline, days_until) ==
    [time |-> T2000,
     activity |-> <<"BOOK", " ",
                    IF days_until = 1 THEN "Intensive"
                    ELSE IF days_until = 3 THEN "Focused" ELSE "Initial",
                    " Review: ">> \o Get(deadline, "title", <<>>),
     type |-> "review",
     course |-> Get(deadline, "course_code", <<>>),
     duration |-> 45,
     priority |-> IF days_until <= 3 THEN "high" ELSE "medium"]

ReviewActivity(deadline, days_until) ==
    [time |-> T2000,
     activity |-> <<"BOOK", " ",
                    IF days_until = 1 THEN "Intensive"
                    ELSE IF days_until = 3 THEN "Focused" ELSE "Initial",
                    " Review: ">> \o Get(deadline, "title", <<>>),
     type |-> "review",
     course |-> Get(deadline, "course_code", <<>>),
     duration |-> IF days_until = 1 THEN 60 ELSE 45,
     priority |-> IF days_until <= 3 THEN "high" ELSE "medium"]

RECURSIVE generate_review_sessions_two_days(_, _)
\* generate_review_sessions without the review 7 days before the deadline
generate_review_sessions_two_days(date, deadlines) ==
    IF deadlines = <<>> THEN [ok |-> TRUE, val |-> <<>>]
    ELSE LET deadline      == Head(deadlines)
             deadline_date == Strptime(Get(deadline, "date", <<>>), IsoFormat)
             days_until    == DeltaDays([date |-> deadline_date.date, tod |-> 0], date)
             rest          == generate_review_sessions_two_days(date, Tail(deadlines))
         IN  IF ~deadline_date.ok \/ ~rest.ok THEN [ok |-> FALSE, val |-> <<>>]
             ELSE IF days_until \in {1, 3}
                       /\ Get(deadline, "type", "") \in {"exam", "project"}
                  THEN [ok |-> TRUE,
                        val |-> <<ReviewActivity(deadline, days_until)>> \o rest.val]
                  ELSE rest

RECURSIVE generate_review_sessions(_, _)
\* [ok |-> FALSE] stands for the ValueError of strptime on a deadline's date
generate_review_sessions(date, deadlines) ==
    IF deadlines = <<>> THEN [ok |-> TRUE, val |-> <<>>]
    ELSE LET deadline      == Head(deadlines)
             deadline_date == Strptime(Get(deadline, "date", <<>>), IsoFormat)
             days_until    == DeltaDays([date |-> deadline_date.date, tod |-> 0], date)
             rest          == generate_review_sessions(date, Tail(deadlines))
         IN  IF ~deadline_date.ok \/ ~rest.ok THEN [ok |-> FALSE, val |-> <<>>]
             ELSE IF days_until \in {1, 3, 7}
                       /\ Get(deadline, "type", "") \in {"exam", "project"}
                  THEN [ok |-> TRUE,
                        val |-> <<ReviewActivity(deadline, days_until)>> \o rest.val]
                  ELSE rest

RECURSIVE InsertByTime(_, _)
\* the place of x in a list sorted by time, behind the entries of equal time
InsertByTime(sorted, x) ==
    IF sorted = <<>> THEN <<x>>
    ELSE IF StrLess(x.time, Head(sorted).time) THEN <<x>> \o sorted
    ELSE <<Head(sorted)>> \o InsertByTime(Tail(sorted), x)

RECURSIVE SortByTime(_)
\* list.sort(key=lambda x: x["time"]), a stable sort
SortByTime(plan) ==
    IF plan = <<>> THEN <<>>
    ELSE InsertByTime(SortByTime(SubSeq(plan, 1, Len(plan) - 1)), plan[Len(plan)])

\* the activities of a day in the order in which generate_daily_plan appends
\* them, before the sort
DailyActivities(date, wakeup, sleep, study_style, deadlines, pad) ==
    LET day_of_week == Weekday(date.date)
    IN  << [time |-> HourStr(wakeup), activity |-> <<"Morning Routine & Wake Up">>,
            type |-> "routine", duration |-> 60],
           [time |-> HourStr(wakeup + 1), activity |-> <<"Breakfast">>,
            type |-> "meal", duration |-> 30] >>
        \o generate_study_sessions(wakeup, sleep, study_style, day_of_week)
        \o << [time |-> T1200, activity |-> <<"Lunch Break">>,
               type |-> "meal", duration |-> 60],
              [time |-> T1800, activity |-> <<"Dinner">>,
               type |-> "meal", duration |-> 60] >>
        \o get_deadlines_for_date(date, deadlines, pad)
        \o generate_review_sessions(date, deadlines).val
        \o (IF day_of_week < 5
            THEN << [time |-> HourStr(wakeup + 8),
                     activity |-> <<"Exercise/Wellness Time">>,
                     type |-> "wellness", duration |-> 45] >>
            ELSE <<>>)
        \o << [time |-> HourStr(sleep - 2),
               activity |-> <<"Free Time & Relaxation">>,
               type |-> "free", duration |-> 120] >>

\* generate_daily_plan without the sort
generate_daily_plan_unsorted(date, wakeup, sleep, study_style, deadlines, parsedDates, pad) ==
    IF ~generate_review_sessions(date, deadlines).ok THEN [ok |-> FALSE, val |-> <<>>]
    ELSE [ok |-> TRUE,
          val |-> DailyActivities(date, wakeup, sleep, study_style, deadlines, pad)]

\* generate_daily_plan with the wellness activity on every day of the week
generate_daily_plan_daily_wellness(date, wakeup, sleep, study_style, deadlines, parsedDates, pad) ==
    LET Sorted(reviews) ==
            IF ~reviews.ok THEN [ok |-> FALSE, val |-> <<>>]
            ELSE [ok |-> TRUE,
                  val |-> SortByTime(
                      << [time |-> HourStr(wakeup), activity |-> <<"Morning Routine & Wake Up">>,
                          type |-> "routine", duration |-> 60],
                         [time |-> HourStr(wakeup + 1), activity |-> <<"Breakfast">>,
                          type |-> "meal", duration |-> 30] >>
                      \o generate_study_sessions(wakeup, sleep, study_style,
                                                 Weekday(date.date))
                      \o << [time |-> T1200, activity |-> <<"Lunch Break">>,
                             type |-> "meal", duration |-> 60],
                            [time |-> T1800, activity |-> <<"Dinner">>,
                             type |-> "meal", duration |-> 60] >>
                      \o get_deadlines_for_date(date, deadlines, pad)
                      \o reviews.val
                      \o << [time |-> HourStr(wakeup + 8),
                             activity |-> <<"Exercise/Wellness Time">>,
                             type |-> "wellness", duration |-> 45],
                            [time |-> HourStr(sleep - 2),
                             activity |-> <<"Free Time & Relaxation">>,
                             type |-> "free", duration |-> 120] >>)]
    IN  Sorted(generate_review_sessions(date, deadlines))

generate_daily_plan(date, wakeup, sleep, study_style, deadlines, parsedDates, pad) ==
    LET day_of_week == Weekday(date.date)
        reviews     == generate_review_sessions(date, deadlines)
        daily_plan  ==
            << [time |-> HourStr(wakeup), activity |-> <<"Morning Routine & Wake Up">>,
                type |-> "routine", duration |-> 60],
               [time |-> HourStr(wakeup + 1), activity |-> <<"Breakfast">>,
                type |-> "meal", duration |-> 30] >>
            \o generate_study_sessions(wakeup, sleep, study_style, day_of_week)
            \o << [time |-> T1200, activity |-> <<"Lunch Break">>,
                   type |-> "meal", duration |-> 60],
                  [time |-> T1800, activity |-> <<"Dinner">>,
                   type |-> "meal", duration |-> 60] >>
            \o get_deadlines_for_date(date, deadlines, pad)
            \o reviews.val
            \o (IF day_of_week < 5
                THEN << [time |-> HourStr(wakeup + 8),
                         activity |-> <<"Exercise/Wellness Time">>,
                         type |-> "wellness", duration |-> 45] >>
                ELSE <<>>)
            \o << [time |-> HourStr(sleep - 2),
                   activity |-> <<"Free Time & Relaxation">>,
                   type |-> "free", duration |-> 120] >>
    IN  IF ~reviews.ok THEN [ok |-> FALSE, val |-> <<>>]
        ELSE [ok |-> TRUE, val |-> SortByTime(daily_plan)]

\* range(120)
HorizonDays == 120

\* datetime < datetime
DateTimeLess(a, b) ==
    \/ ToOrdinal(a.date) < ToOrdinal(b.date)
    \/ ToOrdinal(a.date) = ToOrdinal(b.date) /\ a.tod < b.tod

\* schedule[date_str] = daily_plan on a dict kept as the sequence of its
\* items in insertion order: an existing key keeps its place
DictPut(items, key, value) ==
    IF \E j \in 1..Len(items) : items[j].date_str = key
    THEN [j \in 1..Len(items) |->
            IF items[j].date_str = key THEN [date_str |-> key, plan |-> value]
            ELSE items[j]]
    ELSE Append(items, [date_str |-> key, plan |-> value])

\* an exception left create_schedule
Raised == [raised |-> TRUE, items |-> <<>>]

\* the preferences as create_schedule reads them
Wakeup(userData) == ToInt(Get(userData, "wakeup", PyInt(8)))
Sleep(userData) == ToInt(Get(userData, "sleep", PyInt(23)))
StudyStyle(userData) == Get(userData, "study_style", "pomodoro")
Deadlines(userData) == Get(userData, "deadlines", <<>>)

\* create_schedule(parsed_dates, user_data) is entered: it reads the
\* preferences, int() raising on a value that is no integer, and takes
\* datetime.today() as start_date
CreateScheduleEnter ==
    /\ pc = "call"
    /\ IF Wakeup(user_data).ok /\ Sleep(user_data).ok
       THEN /\ pc' = "loop"
            /\ schedule' = [raised |-> FALSE, items |-> <<>>]
       ELSE /\ pc' = "done"
            /\ schedule' = Raised
    /\ day_i' = 0
    /\ UNCHANGED <<now, padYear, hashSeed, parsed_dates, user_data, text, parsed,
                   request, response,
                   student_schedules, calls>>

\* one iteration of "for i in range(120)"
CreateScheduleDay ==
    /\ pc = "loop"
    /\ day_i < HorizonDays
    /\ LET start_date  == now
           current_day == PlusDays(start_date, day_i)
           date_str    == Strftime(current_day.date, padYear)
           daily_plan  == generate_daily_plan(current_day, Wakeup(user_data).val,
                              Sleep(user_data).val, StudyStyle(user_data),
                              Deadlines(user_data), parsed_dates, padYear)
       IN  IF DateTimeLess(current_day, start_date)
           THEN /\ day_i' = day_i + 1
                /\ UNCHANGED <<pc, schedule>>
           ELSE IF ~daily_plan.ok
           THEN /\ schedule' = Raised
                /\ pc' = "done"
                /\ UNCHANGED day_i
           ELSE /\ schedule' = [schedule EXCEPT
                                  !.items = DictPut(@, date_str, daily_plan.val)]
                /\ day_i' = day_i + 1
                /\ UNCHANGED pc
    /\ UNCHANGED <<now, padYear, hashSeed, parsed_dates, user_data, text, parsed,
                   request, response,
                   student_schedules, calls>>

\* the loop is over: return schedule
CreateScheduleReturn ==
    /\ pc = "loop"
    /\ day_i >= HorizonDays
    /\ pc' = "done"
    /\ UNCHANGED <<day_i, schedule, now, padYear, hashSeed, parsed_dates, user_data,
                   text, parsed, request, response,
                   student_schedules, calls>>

----------------------------------------------------------------------------
(* The calls of create_schedule that are explored *)

\* the most deadlines in one list
MaxDeadlines == 2

\* the moments at which create_schedule is called: a Friday at midnight
\* sharp and in the afternoon, and a Wednesday whose horizon crosses a year
\* end and a leap day
Nows ==
    { [date |-> <<2026, 11, 6>>, tod |-> 0],
      [date |-> <<2026, 11, 6>>, tod |-> 50400],
      [date |-> <<2023, 11, 15>>, tod |-> 1] }

\* the date string of the day k days after the day of t
DayString(t, k) == Strftime(FromOrdinal(ToOrdinal(t.date) + k), TRUE)

\* the same day written without leading zeros
DayStringUnpadded(t, k) ==
    LET d == FromOrdinal(ToOrdinal(t.date) + k)
    IN  Decimal(d[1]) \o <<"-">> \o Decimal(d[2]) \o <<"-">> \o Decimal(d[3])

\* no upload request is under way
NoRequest == [has_file |-> FALSE]
NoResponse == [status |-> 0]

DeadlineOffsets == {0, 1, 2, 3, 4, 7, 8, 119, 120}

T0900 == <<"0", "9", ":", "0", "0">>

\* deadlines with a well-formed date
GoodDeadlines(t) ==
    { [date |-> DayString(t, k), type |-> "project", title |-> <<"P">>] :
          k \in DeadlineOffsets }
    \cup { [date |-> DayString(t, k), type |-> "exam", title |-> <<"E">>,
            time |-> T0900, course_code |-> <<"C", "S", "1", "0", "1">>] :
          k \in {1, 7} }
    \cup { [date |-> DayString(t, 3), type |-> "quiz", title |-> <<"Q">>],
           [date |-> DayString(t, 1), type |-> "assignment", title |-> <<"A">>],
           [date |-> DayString(t, 7), type |-> "presentation", title |-> <<"R">>],
           [date |-> DayString(t, 3), type |-> "Exam", title |-> <<"X">>],
           [date |-> DayString(t, 0), title |-> <<"N">>],
           [date |-> DayStringUnpadded(t, 3), type |-> "project", title |-> <<"U">>] }

\* deadlines whose date is missing, empty or no date
BadDeadlines ==
    { [type |-> "exam", title |-> <<"M">>],
      [date |-> <<>>, type |-> "exam", title |-> <<"M">>],
      [date |-> <<"s", "o", "o", "n">>, type |-> "project", title |-> <<"M">>],
      [date |-> <<"2", "0", "2", "7", "-", "0", "2", "-", "3", "0">>,
       type |-> "assignment", title |-> <<"M">>] }

\* the deadlines that meet in lists of more than one
PairDeadlines(t) ==
    { [date |-> DayString(t, 3), type |-> "project", title |-> <<"P">>],
      [date |-> DayString(t, 1), type |-> "exam", title |-> <<"E">>,
       time |-> T0900, course_code |-> <<"C", "S", "1", "0", "1">>],
      [date |-> <<>>, type |-> "exam", title |-> <<"M">>] }

RECURSIVE ListsUpTo(_, _)
\* the lists of at most n elements of S
ListsUpTo(S, n) ==
    IF n = 0 THEN {<<>>}
    ELSE LET shorter == ListsUpTo(S, n - 1)
         IN  shorter \cup {Append(l, x) : l \in shorter, x \in S}

\* a quiz and a project on one day
MixedDeadlines(t) ==
    << [date |-> DayString(t, 3), type |-> "quiz", title |-> <<"Q">>],
       [date |-> DayString(t, 3), type |-> "project", title |-> <<"P">>] >>

DeadlineLists(t) ==
    {<<d>> : d \in GoodDeadlines(t) \cup BadDeadlines}
        \cup ListsUpTo(PairDeadlines(t), MaxDeadlines)
        \cup {MixedDeadlines(t)}

WakeupValues ==
    {PyInt(6), PyInt(23), PyStr(<<"7">>), PyStr(<<"a", "b", "c">>), PyNone}
SleepValues == {PyInt(22), PyInt(1), PyStr(<<"l", "a", "t", "e">>)}
StyleValues == {"pomodoro", "focused", "flexible", "other"}

\* a dict with the given keys set and the others absent
WithKey(d, key, value) ==
    [k \in DOMAIN d \cup {key} |-> IF k = key THEN value ELSE d[k]]

NoPrefs == [email |-> <<"a", "@", "b">>]

\* the preference dicts: wakeup absent or set, sleep absent or set beside
\* three of them, and study_style absent or set beside each of those
PrefDicts ==
    LET W == {NoPrefs} \cup {WithKey(NoPrefs, "wakeup", w) : w \in WakeupValues}
        S == W \cup {WithKey(d, "sleep", v) :
                        d \in {NoPrefs, WithKey(NoPrefs, "wakeup", PyInt(6)),
                               WithKey(NoPrefs, "wakeup", PyStr(<<"7">>))},
                        v \in SleepValues}
    IN  S \cup {WithKey(d, "study_style", v) : d \in S, v \in StyleValues}

\* user_data: the preference dicts without deadlines, and each list of
\* deadlines beside the default preferences
UserDatas(t) ==
    PrefDicts \cup {WithKey(NoPrefs, "deadlines", l) : l \in DeadlineLists(t)}

Init ==
    /\ pc = "call"
    /\ day_i = 0
    /\ now \in Nows
    \* the years of the horizon have four digits: the C libraries agree on them
    /\ padYear = FALSE
    /\ hashSeed = 0
    /\ parsed_dates = <<>>
    /\ user_data \in UserDatas(now)
    /\ schedule = [raised |-> FALSE, items |-> <<>>]
    /\ text = <<>>
    /\ parsed = <<>>
    /\ request = NoRequest
    /\ response = NoResponse
    /\ student_schedules = <<>>
    /\ calls = <<>>

Next ==
    \/ CreateScheduleEnter
    \/ CreateScheduleDay
    \/ CreateScheduleReturn

Spec == Init /\ [][Next]_vars

----------------------------------------------------------------------------
(* The calls of the parser functions that are explored *)

\* the most tokens in one text
MaxTokens == 2

\* the tokens of a text, joined by blanks
RECURSIVE Join(_)
Join(tokens) ==
    IF tokens = <<>> THEN <<>>
    ELSE IF Len(tokens) = 1 THEN tokens[1]
    ELSE tokens[1] \o <<" ">> \o Join(Tail(tokens))

\* spellings of 15 March 2024 and of an impossible day
DateTokens ==
    { <<"0", "3", "/", "1", "5", "/", "2", "0", "2", "4">>,
      <<"3", "/", "1", "5", "/", "2", "0", "2", "4">>,
      <<"2", "0", "2", "4", "-", "0", "3", "-", "1", "5">>,
      <<"M", "a", "r", "c", "h", " ", "1", "5", ",", " ", "2", "0", "2", "4">>,
      <<"M", "a", "r", "c", "h", " ", "1", "5">>,
      <<"0", "2", "/", "3", "0", "/", "2", "0", "2", "4">> }

WordTokens ==
    { <<"d", "u", "e">>,
      <<"A", "s", "s", "i", "g", "n", "m", "e", "n", "t", ":">>,
      <<"o", "v", "e", "r", "d", "u", "e">> }

Vocabulary == DateTokens \cup WordTokens

TokenTexts == {Join(l) : l \in ListsUpTo(Vocabulary, MaxTokens)}

\* the sentences of the documentation and some more
ExampleTexts ==
    { <<"M", "a", "y">>,
      <<"e", "x", "a", "m", " ", "1", "5", " ", "M", "a", "r", " ", "2", "0", "2", "4">>,
      <<"A", "s", "s", "i", "g", "n", "m", "e", "n", "t", ":", " ", "E", "s", "s", "a", "y", " ", "o", "n", " ", "c", "l", "i", "m", "a", "t", "e", " ", "c", "h", "a", "n", "g", "e", " ", "d", "u", "e", " ", "F", "r", "i", "d", "a", "y">>,
      <<"P", "r", "o", "j", "e", "c", "t", " ", "d", "u", "e", " ", "M", "a", "r", "c", "h", " ", "1", "5", ",", " ", "2", "0", "2", "4">>,
      <<"M", "i", "d", "t", "e", "r", "m", " ", "e", "x", "a", "m", " ", "a", "n", "d", " ", "f", "i", "n", "a", "l", " ", "p", "r", "o", "j", "e", "c", "t", " ", "d", "u", "e">>,
      <<"E", "x", "a", "m", ":", " ", "D", "u", "e", ":", " ", "c", "h", "a", "p", "t", "e", "r", " ", "2">>,
      <<" ", " ", "q", "u", "i", "z", ":", " ", " ", " ", "l", "a", "t", "e", "s", "t", " ", " ", "n", "e", "w", "s", " ">>,
      <<"D", "e", "a", "d", "l", "i", "n", "e">>,
      <<"0", "3", "/", "1", "5", "/", "2", "0", "2", "4", " ", "a", "n", "d", " ", "0", "3", "/", "1", "5", "/", "2", "0", "2", "4">>,
      <<"M", "a", "r", "c", "h", " ", "1", "5", ",", " ", "2", "0", "2", "4", " ", "o", "r", " ", "M", "a", "r", " ", "1", "5", ",", " ", "2", "0", "2", "4">> }

\* the years, months and days of which date strings are spelled; some of the
\* combinations are no calendar days
SpelledYears == {999, 2023, 2024}
SpelledMonths == {2, 4, 12}
SpelledDays == {1, 29, 30, 31}

Capitalized(w) == <<UpperChar(Head(w))>> \o Tail(w)

TwoDigits(n) == ZeroFill(Decimal(n), 2)

\* the spelling of year y, month m, day d in the k-th of the formats that
\* validate_and_format_date knows; P pads or does not pad month and day
Spelling(y, m, d, k, P(_)) ==
    LET Y == ZeroFill(Decimal(y), 4)
        B == Capitalized(MonthNames[m])
        b == Capitalized(MonthAbbrs[m])
    IN  CASE k = 1 -> P(m) \o <<"/">> \o P(d) \o <<"/">> \o Y
          [] k = 2 -> P(m) \o <<"-">> \o P(d) \o <<"-">> \o Y
          [] k = 3 -> Y \o <<"-">> \o P(m) \o <<"-">> \o P(d)
          [] k = 4 -> B \o <<" ">> \o P(d) \o <<",", " ">> \o Y
          [] k = 5 -> P(d) \o <<" ">> \o B \o <<" ">> \o Y
          [] k = 6 -> b \o <<" ">> \o P(d) \o <<",", " ">> \o Y
          [] k = 7 -> P(d) \o <<" ">> \o b \o <<" ">> \o Y
          [] k = 8 -> P(m) \o <<"/">> \o P(d)
          [] k = 9 -> B \o <<" ">> \o P(d)
          [] k = 10 -> b \o <<" ">> \o P(d)

\* the spellings of a day in format k, padded and not
Spellings(y, m, d, k) ==
    {Spelling(y, m, d, k, TwoDigits), Spelling(y, m, d, k, Decimal)}

DateStrings ==
    UNION {Spellings(y, m, d, k) :
             y \in SpelledYears, m \in SpelledMonths, d \in SpelledDays, k \in 1..10}

\* strings that are no dates
NoDates ==
    { <<>>,
      <<"s", "o", "o", "n">>,
      <<"0", "3", "/", "1", "5", "/", "2", "0", "2", "4", " ">>,
      <<"3", "/", "1", "5", "/", "2", "4">>,
      <<"1", "3", "/", "0", "1", "/", "2", "0", "2", "4">>,
      <<"2", "0", "2", "4", "/", "0", "3", "/", "1", "5">>,
      <<"S", "e", "p", "t", " ", "5", ",", " ", "2", "0", "2", "4">>,
      <<"1", "/", "1", "/", "0", "0", "0", "0">>,
      <<"M", "a", "r", "c", "h", " ", "1", "5", ",", "2", "0", "2", "4">>,
      <<"3", " ", "/", "5", "/", "2", "0", "2", "4">> }

Texts == TokenTexts \cup ExampleTexts \cup DateStrings \cup NoDates

\* the moments of the calls: the current year is and is not the year 2024
\* of the spelled dates
ParserNows == { [date |-> <<2024, 11, 6>>, tod |-> 0],
                [date |-> <<2026, 1, 2>>, tod |-> 0] }

CurrentYear == now.date[1]

ParserInit ==
    /\ pc = "call"
    /\ day_i = 0
    /\ now \in ParserNows
    /\ padYear \in BOOLEAN
    /\ hashSeed \in {0, 1}
    /\ parsed_dates = <<>>
    /\ user_data = NoPrefs
    /\ schedule = [raised |-> FALSE, items |-> <<>>]
    /\ text \in Texts
    /\ parsed = [fn |-> "none", val |-> <<>>]
    /\ request = NoRequest
    /\ response = NoResponse
    /\ student_schedules = <<>>
    /\ calls = <<>>

\* the parser function fn is called on text and returns val
ParserCall(fn, val) ==
    /\ pc = "call"
    /\ pc' = "done"
    /\ parsed' = [fn |-> fn, val |-> val]
    /\ UNCHANGED <<day_i, now, padYear, hashSeed, parsed_dates, user_data,
                   schedule, text, request, response,
                   student_schedules, calls>>

CallValidateAndFormatDate ==
    ParserCall("validate_and_format_date",
               validate_and_format_date(text, CurrentYear, padYear))

CallExtractDates ==
    ParserCall("extract_dates", extract_dates(text, CurrentYear, padYear, hashSeed))

CallExtractDeadlineTitle ==
    ParserCall("extract_deadline_title", extract_deadline_title(text))

ParserNext ==
    \/ CallValidateAndFormatDate
    \/ CallExtractDates
    \/ CallExtractDeadlineTitle

SpecParser == ParserInit /\ [][ParserNext]_vars

----------------------------------------------------------------------------
(* app.py *)

\* the items of the character class [^\w\s-.] of secure_filename's pattern
SecureFilenameClass ==
    << [category |-> "w"], [category |-> "s"], [literal |-> "-"], [literal |-> "."] >>

\* re's parser reads "x-y" inside a class as a range and raises re.error
\* ("bad character range") when x or y is a category such as \s
BadCharacterRange(items) ==
    \E k \in 2..(Len(items) - 1) :
        /\ items[k] = [literal |-> "-"]
        /\ "category" \in DOMAIN items[k - 1] \/ "category" \in DOMAIN items[k + 1]

\* secure_filename(filename): re.sub compiles the pattern at the call;
\* [ok |-> FALSE] stands for the re.error it raises
secure_filename(filename) ==
    IF BadCharacterRange(SecureFilenameClass) THEN [ok |-> FALSE, val |-> <<>>]
    ELSE LET Kept(c) == IsWord(c) \/ IsSpace(c) \/ c \in {"-", "."}
         IN  [ok |-> TRUE, val |-> Strip(SelectSeq(filename, Kept))]

Answer(status, error) == [status |-> status, error |-> error, schedule |-> <<>>]

\* POST /api/upload.  The statements after the call of secure_filename (save
\* the file, read the form, parse, load the deadlines, create the schedule,
\* store it, send the email, remove the file, answer 200) run when
\* secure_filename returns; it raises for every filename, and the handler's
\* except clause answers 500 with the text of the exception.
upload_file ==
    /\ pc = "call"
    /\ IF "file" \notin DOMAIN request
       THEN /\ response' = Answer(400, "No file provided")
            /\ pc' = "done"
       ELSE IF request.file.filename = <<>>
       THEN /\ response' = Answer(400, "No file selected")
            /\ pc' = "done"
       ELSE LET filename == secure_filename(request.file.filename)
            IN  IF ~filename.ok
                THEN /\ response' = Answer(500, "bad character range")
                     /\ pc' = "done"
                ELSE /\ pc' = "saved"
                     /\ UNCHANGED response
    /\ UNCHANGED <<day_i, now, padYear, hashSeed, parsed_dates, user_data,
                   schedule, text, parsed, request,
                   student_schedules, calls>>

\* the names of the uploaded files
Filenames ==
    { <<>>,
      <<"s", "y", "l", "l", "a", "b", "u", "s", ".", "t", "x", "t">>,
      <<"m", "y", " ", "p", "l", "a", "n", ".", "p", "d", "f">> }

\* the texts of the uploaded documents
Documents ==
    { <<>>,
      <<"P", "r", "o", "j", "e", "c", "t", " ", "d", "u", "e", " ", "2", "0", "2", "6", "-", "1", "1", "-", "1", "0", ".">>,
      <<"F", "i", "n", "a", "l", " ", "e", "x", "a", "m", " ", "o", "n", " ", "N", "o", "v", "e", "m", "b", "e", "r", " ", "9", ",", " ", "2", "0", "2", "6", ".", " ", "H", "o", "m", "e", "w", "o", "r", "k", " ", "d", "u", "e", " ", "1", "1", "/", "2", "0", "/", "2", "0", "2", "6">>,
      <<"E", "s", "s", "a", "y", " ", "d", "u", "e", " ", "0", "3", "/", "1", "5", "/", "2", "0", "2", "4">>,
      <<"O", "f", "f", "i", "c", "e", " ", "h", "o", "u", "r", "s", " ", "o", "n", " ", "M", "o", "n", "d", "a", "y">> }

\* the forms: with and without the preferences
Forms ==
    LET E == [email |-> <<"a", "@", "b">>]
    IN  { <<>>, E, WithKey(E, "wakeup", <<"7">>),
          WithKey(WithKey(WithKey(E, "wakeup", <<"a", "b", "c">>),
                          "sleep", <<"2", "2">>),
                  "studyStyle", <<"f", "o", "c", "u", "s", "e", "d">>) }

\* the upload requests: without a file, and with each file beside each form
Requests ==
    {[form |-> f] : f \in Forms}
    \cup {[form |-> f, file |-> [filename |-> n, content |-> c]] :
            f \in Forms, n \in Filenames, c \in Documents}

UploadInit ==
    /\ pc = "call"
    /\ day_i = 0
    /\ now \in Nows
    /\ padYear = FALSE
    /\ hashSeed \in {0, 1}
    /\ parsed_dates = <<>>
    /\ user_data = NoPrefs
    /\ schedule = [raised |-> FALSE, items |-> <<>>]
    /\ text = <<>>
    /\ parsed = <<>>
    /\ request \in Requests
    /\ response = NoResponse
    /\ student_schedules = <<>>
    /\ calls = <<>>

UploadNext == upload_file

SpecUpload == UploadInit /\ [][UploadNext]_vars

----------------------------------------------------------------------------
(* Properties of create_schedule *)

\* the call has returned a schedule
Returned == pc = "done" /\ ~schedule.raised

\* the calendar day that a YYYY-MM-DD key of the schedule denotes
DateOfString(ds) ==
    << DecimalValue(SubSeq(ds, 1, 4)), DecimalValue(SubSeq(ds, 6, 7)),
       DecimalValue(SubSeq(ds, 9, 10)) >>

\* the calendar day after d
NextDay(d) ==
    IF d[3] < DaysInMonth(d[1], d[2]) THEN <<d[1], d[2], d[3] + 1>>
    ELSE IF d[2] < 12 THEN <<d[1], d[2] + 1, 1>>
    ELSE <<d[1] + 1, 1, 1>>

IsDateString(ds) == Strptime(ds, IsoFormat).ok

\* the deadlines of the call that are dated and count as major
MajorDeadlines ==
    {d \in {Deadlines(user_data)[k] : k \in 1..Len(Deadlines(user_data))} :
        /\ "date" \in DOMAIN d
        /\ IsDateString(d.date)
        /\ Get(d, "type", "") \in {"exam", "project"}}

\* the review activities of a plan that belong to deadline d
ReviewsOf(plan, d) ==
    {k \in 1..Len(plan) :
        /\ plan[k].type = "review"
        /\ SubSeq(plan[k].activity, 5, Len(plan[k].activity)) = d.title}

\* calendar days from the day of key ds to the date of deadline d
CalendarDaysUntil(d, ds) ==
    ToOrdinal(Strptime(d.date, IsoFormat).date) - ToOrdinal(DateOfString(ds))

\* C1: a project deadline dated D+3 gives the plan of the reference day D a
\* review labelled Focused of 45 minutes and high priority, and a review of an
\* exam or project deadline is on day X exactly when the deadline's calendar
\* date is 1, 3 or 7 days after X (so never 2 days after X).
C1_ReviewOnCalendarDays ==
    Returned =>
        \A d \in MajorDeadlines :
            /\ \A n \in 1..Len(schedule.items) :
                  (ReviewsOf(schedule.items[n].plan, d) # {})
                      <=> (CalendarDaysUntil(d, schedule.items[n].date_str)
                               \in {1, 3, 7})
            /\ (d.type = "project" /\ d.date = DayString(now, 3)) =>
                  \E k \in ReviewsOf(schedule.items[1].plan, d) :
                      LET a == schedule.items[1].plan[k]
                      IN  /\ schedule.items[1].date_str = DayString(now, 0)
                          /\ a.activity[3] = "Focused"
                          /\ a.duration = 45
                          /\ a.priority = "high"

\* C4: with preferences that are integers, create_schedule returns a schedule
\* for every deadline list, also one with a deadline whose date is missing,
\* empty or no YYYY-MM-DD date.
C4_NeverRaisesOnDeadlines ==
    (pc = "done" /\ Wakeup(user_data).ok /\ Sleep(user_data).ok)
        => ~schedule.raised

PrefUsable(userData, key) ==
    key \in DOMAIN userData /\ ToInt(userData[key]).ok

TimesOfType(plan, type) ==
    {plan[k].time : k \in {j \in 1..Len(plan) : plan[j].type = type}}

\* C5: a preference that is absent or not convertible to an integer is
\* replaced by its default (wakeup 8, sleep 23, study_style pomodoro) and
\* create_schedule returns a schedule built with it.
C5_PreferenceDefaulted ==
    (pc = "done" /\ Deadlines(user_data) = <<>>) =>
        /\ ~schedule.raised
        /\ \A n \in 1..Len(schedule.items) :
              LET plan == schedule.items[n].plan
              IN  /\ ~PrefUsable(user_data, "wakeup")
                        => TimesOfType(plan, "routine") = {HourStr(8)}
                  /\ ~PrefUsable(user_data, "sleep")
                        => TimesOfType(plan, "free") = {HourStr(21)}
                  /\ "study_style" \notin DOMAIN user_data
                        => \E k \in 1..Len(plan) :
                              plan[k].activity = <<"Morning Study Block (4 Pomodoros)">>

\* how many activities of a plan satisfy a test
Count(plan, Test(_)) == Cardinality({k \in 1..Len(plan) : Test(plan[k])})

IsRoutine(a) == a.type = "routine"
IsBreakfast(a) == a.type = "meal" /\ a.activity = <<"Breakfast">>
IsLunch(a) == a.type = "meal" /\ a.activity = <<"Lunch Break">>
IsDinner(a) == a.type = "meal" /\ a.activity = <<"Dinner">>
IsStudy(a) == a.type = "study"
IsFree(a) == a.type = "free"

\* C6: without deadlines and with integer wakeup and sleep, the schedule has
\* exactly 120 entries, keyed by today and the 119 calendar days that follow
\* it, and every day has at least 6 activities: one routine, one breakfast,
\* at least two study blocks, lunch, dinner and one free-time activity.
C6_FullHorizon ==
    (pc = "done" /\ Deadlines(user_data) = <<>>
         /\ Wakeup(user_data).ok /\ Sleep(user_data).ok) =>
        /\ ~schedule.raised
        /\ Len(schedule.items) = 120
        /\ schedule.items[1].date_str = DayString(now, 0)
        /\ \A n \in 1..(Len(schedule.items) - 1) :
              /\ IsDateString(schedule.items[n + 1].date_str)
              /\ DateOfString(schedule.items[n + 1].date_str)
                     = NextDay(DateOfString(schedule.items[n].date_str))
        /\ \A n \in 1..Len(schedule.items) :
              LET plan == schedule.items[n].plan
              IN  /\ Len(plan) >= 6
                  /\ Count(plan, IsRoutine) = 1
                  /\ Count(plan, IsBreakfast) = 1
                  /\ Count(plan, IsStudy) >= 2
                  /\ Count(plan, IsLunch) = 1
                  /\ Count(plan, IsDinner) = 1
                  /\ Count(plan, IsFree) = 1

\* a schedule without deadlines, for preferences given as a string and an
\* unknown style, has been returned over a horizon that crosses a leap day
C6_Witness ==
    /\ Returned
    /\ Deadlines(user_data) = <<>>
    /\ "wakeup" \in DOMAIN user_data /\ user_data.wakeup = PyStr(<<"7">>)
    /\ "sleep" \in DOMAIN user_data /\ user_data.sleep = PyInt(1)
    /\ StudyStyle(user_data) = "other"
    /\ Len(schedule.items) = 120
    /\ \E n \in 1..120 :
          schedule.items[n].date_str
              = <<"2", "0", "2", "4", "-", "0", "2", "-", "2", "9">>

----------------------------------------------------------------------------
(* Properties of the parser functions *)

Called(fn) == pc = "done" /\ parsed.fn = fn

\* ^label:?\s*
LeadingLabel(label) == <<RxStart>> \o RxWord(label) \o <<RxOpt(":"), RxSpaces(0)>>

RECURSIVE AfterLeadingLabels(_)
\* the text after the run of labels that a sentence starts with
AfterLeadingLabels(s) ==
    LET r == RxMatchAny([k \in 1..Len(prefixes_to_remove) |->
                            LeadingLabel(prefixes_to_remove[k])], 1, s, 1)
    IN  IF r.ok /\ MatchEnd(r) > 1
        THEN AfterLeadingLabels(SubSeq(s, MatchEnd(r), Len(s)))
        ELSE s

\* the title that is left when only the leading labels are removed
TitleAfterLeadingLabels(s) ==
    LET title == Strip(CollapseSpaces(AfterLeadingLabels(Strip(s))))
    IN  IF title # <<>> THEN title ELSE UntitledDeadline

\* C3: extract_deadline_title removes the run of labels (due, deadline,
\* assignment, exam, test, quiz, project, with or without a colon) that the
\* sentence starts with and keeps all the text after it, label words that come
\* later included: 'Assignment: Essay on climate change due Friday' gives
\* 'Essay on climate change due Friday'.
C3_OnlyLeadingLabelsRemoved ==
    Called("extract_deadline_title") =>
        /\ parsed.val = TitleAfterLeadingLabels(text)
        /\ text = <<"A", "s", "s", "i", "g", "n", "m", "e", "n", "t", ":", " ", "E", "s", "s", "a", "y", " ", "o", "n", " ", "c", "l", "i", "m", "a", "t", "e", " ", "c", "h", "a", "n", "g", "e", " ", "d", "u", "e", " ", "F", "r", "i", "d", "a", "y">>
               => parsed.val = <<"E", "s", "s", "a", "y", " ", "o", "n", " ", "c", "l", "i", "m", "a", "t", "e", " ", "c", "h", "a", "n", "g", "e", " ", "d", "u", "e", " ", "F", "r", "i", "d", "a", "y">>

\* C7: the list that extract_dates returns holds no date twice, whatever the
\* text, texts that spell one day in two ways included.
C7_EachDateOnce ==
    Called("extract_dates") =>
        \A i, j \in 1..Len(parsed.val) : i < j => parsed.val[i] # parsed.val[j]

\* the date tokens that spell a calendar day
RealDateTokens == DateTokens \ { <<"0", "2", "/", "3", "0", "/", "2", "0", "2", "4">> }

\* the words that are no part of a date
FillerTokens == WordTokens

Occurrences(l, x) == Cardinality({k \in 1..Len(l) : l[k] = x})

\* the texts that hold the date token d more than once and no other date
RepeatedTexts(d) ==
    {Join(l) : l \in {m \in ListsUpTo({d} \cup FillerTokens, MaxTokens) :
                        Occurrences(m, d) >= 2}}
    \cup (IF d = <<"0", "3", "/", "1", "5", "/", "2", "0", "2", "4">>
          THEN { <<"0", "3", "/", "1", "5", "/", "2", "0", "2", "4", " ", "a", "n", "d", " ", "0", "3", "/", "1", "5", "/", "2", "0", "2", "4">> } ELSE {})

MonthFirstWithYear == { <<"M", "a", "r", "c", "h", " ", "1", "5", ",", " ", "2", "0", "2", "4">> }

ThisYearMarch15 == ZeroFill(Decimal(CurrentYear), 4) \o <<"-", "0", "3", "-", "1", "5">>

IsCalendarDay(y, m, d) == d <= DaysInMonth(y, m)

\* the strings that spell a day with its year that the calendar does not have
ImpossibleDateStrings ==
    UNION {IF IsCalendarDay(y, m, d) THEN {} ELSE Spellings(y, m, d, k) :
             y \in SpelledYears, m \in SpelledMonths, d \in SpelledDays, k \in 1..7}

\* the strings that spell a day without year that the year cy does not have
ImpossibleThisYear(cy) ==
    UNION {IF IsCalendarDay(cy, m, d) THEN {} ELSE Spellings(cy, m, d, k) :
             m \in SpelledMonths, d \in SpelledDays, k \in 8..10}

\* is v a string YYYY-MM-DD of a calendar day
IsCanonicalDate(v) == Len(v) = 10 /\ IsDateString(v)

\* C9: validate_and_format_date returns, for every string, None or a string
\* YYYY-MM-DD of a calendar day, and None when no format matches the whole
\* string or the day does not exist (day 31 of a month of 30 days, 29
\* February of a year that is no leap year).
C9_CanonicalDateOrNone ==
    Called("validate_and_format_date") =>
        /\ parsed.val = None \/ IsCanonicalDate(parsed.val)
        /\ text \in ImpossibleDateStrings \cup ImpossibleThisYear(CurrentYear)
                       \cup NoDates
               => parsed.val = None

CanonicalDate(y, m, d) ==
    ZeroFill(Decimal(y), 4) \o <<"-">> \o TwoDigits(m) \o <<"-">> \o TwoDigits(d)

\* C10: the seven spellings with a year of a calendar day all give, through
\* validate_and_format_date, the string YYYY-MM-DD of that day.
C10_SpellingsAgree ==
    Called("validate_and_format_date") =>
        \A y \in SpelledYears, m \in SpelledMonths, d \in SpelledDays, k \in 1..7 :
            IsCalendarDay(y, m, d) /\ text \in Spellings(y, m, d, k)
                => parsed.val = CanonicalDate(y, m, d)

----------------------------------------------------------------------------
(* Properties of the upload *)

\* the deadlines that the parser extracts from the uploaded document
ExtractedDeadlines ==
    IF "file" \in DOMAIN request
    THEN parse_text_content(request.file.content, CurrentYear, padYear, hashSeed).deadlines
    ELSE <<>>

\* is ds the date of one of the days of the schedule
InHorizon(ds) ==
    /\ IsCanonicalDate(ds)
    /\ ToOrdinal(DateOfString(ds)) - ToOrdinal(now.date) \in 0..(HorizonDays - 1)

\* is the activity the one that get_deadlines_for_date makes of deadline d
IsActivityOf(a, d) ==
    /\ a.type = "deadline"
    /\ \E k \in 0..Len(a.activity) : SubSeq(a.activity, k + 1, Len(a.activity)) = d.title

\* C2: in the upload, every deadline that the parser extracts from the
\* document and whose date is a day of the 120 days is a 'deadline' activity
\* of that day in the schedule that the upload returns.
C2_ExtractedDeadlinesScheduled ==
    (pc = "done" /\ "file" \in DOMAIN request /\ request.file.filename # <<>>) =>
        \A k \in 1..Len(ExtractedDeadlines) :
            LET d == ExtractedDeadlines[k]
            IN  InHorizon(d.date) =>
                    /\ response.status = 200
                    /\ \E n \in 1..Len(response.schedule) :
                          /\ response.schedule[n].date_str = d.date
                          /\ \E j \in 1..Len(response.schedule[n].plan) :
                                IsActivityOf(response.schedule[n].plan[j], d)

----------------------------------------------------------------------------
(* Properties of the dates without a year *)

\* the spellings of month m, day d without a year: MM/DD, Month DD, Mon DD
YearlessSpellings(m, d) == UNION {Spellings(0, m, d, k) : k \in 8..10}

\* C11: a date string without a year (MM/DD, Month DD, Mon DD) is read in
\* the year of the moment of the call, whatever the month of that moment:
\* validate_and_format_date returns that month and day of the current year
\* (None when the current year has no such day), so under another current
\* year the result differs in the year only.
C11_YearlessInCurrentYear ==
    Called("validate_and_format_date") =>
        \A m \in SpelledMonths, d \in SpelledDays :
            text \in YearlessSpellings(m, d) =>
                parsed.val = IF IsCalendarDay(now.date[1], m, d)
                             THEN CanonicalDate(now.date[1], m, d)
                             ELSE None

\* 'Dec 31' read in January 2026 is the last day of 2026
C11_Witness ==
    /\ Called("validate_and_format_date")
    /\ text = <<"D", "e", "c", " ", "3", "1">>
    /\ now.date = <<2026, 1, 2>>
    /\ parsed.val = <<"2", "0", "2", "6", "-", "1", "2", "-", "3", "1">>

----------------------------------------------------------------------------
(* Calls of determine_deadline_type *)

\* the longest sentence, in words
MaxWords == 2

\* words with a keyword, in the case of the code and in other cases, words
\* that hold a keyword inside ('latest', 'pathway'), and words
\* with none
TypeWords ==
    { <<"e", "x", "a", "m">>, <<"t", "e", "s", "t">>, <<"f", "i", "n", "a", "l">>, <<"m", "i", "d", "t", "e", "r", "m">>, <<"a", "s", "s", "i", "g", "n", "m", "e", "n", "t">>, <<"h", "o", "m", "e", "w", "o", "r", "k">>,
      <<"h", "w">>, <<"p", "r", "o", "j", "e", "c", "t">>, <<"p", "a", "p", "e", "r">>, <<"q", "u", "i", "z">>, <<"p", "r", "e", "s", "e", "n", "t", "a", "t", "i", "o", "n">>, <<"p", "r", "e", "s", "e", "n", "t">>,
      <<"M", "i", "d", "t", "e", "r", "m">>, <<"P", "R", "O", "J", "E", "C", "T">>, <<"Q", "u", "i", "z">>, <<"l", "a", "t", "e", "s", "t">>, <<"p", "a", "t", "h", "w", "a", "y">>, <<"d", "u", "e">>,
      <<"n", "o", "t", "e", "s">> }

TypeTexts ==
    {Join(l) : l \in ListsUpTo(TypeWords, MaxWords)}
    \cup { <<"M", "i", "d", "t", "e", "r", "m", " ", "e", "x", "a", "m", " ", "a", "n", "d", " ", "f", "i", "n", "a", "l", " ", "p", "r", "o", "j", "e", "c", "t", " ", "d", "u", "e">> }

TypeInit ==
    /\ pc = "call"
    /\ day_i = 0
    /\ now \in ParserNows
    /\ padYear = FALSE
    /\ hashSeed = 0
    /\ parsed_dates = <<>>
    /\ user_data = NoPrefs
    /\ schedule = [raised |-> FALSE, items |-> <<>>]
    /\ text \in TypeTexts
    /\ parsed = [fn |-> "none", val |-> <<>>]
    /\ request = NoRequest
    /\ response = NoResponse
    /\ student_schedules = <<>>
    /\ calls = <<>>

CallDetermineDeadlineType ==
    ParserCall("determine_deadline_type", determine_deadline_type(text))

TypeNext == CallDetermineDeadlineType

SpecType == TypeInit /\ [][TypeNext]_vars

----------------------------------------------------------------------------
(* Properties of determine_deadline_type *)

\* the keyword groups in the order of the checks, each with its type
KeywordGroups ==
    << [type |-> "exam", words |-> {<<"e", "x", "a", "m">>, <<"t", "e", "s", "t">>, <<"f", "i", "n", "a", "l">>, <<"m", "i", "d", "t", "e", "r", "m">>}],
       [type |-> "assignment", words |-> {<<"a", "s", "s", "i", "g", "n", "m", "e", "n", "t">>, <<"h", "o", "m", "e", "w", "o", "r", "k">>, <<"h", "w">>}],
       [type |-> "project", words |-> {<<"p", "r", "o", "j", "e", "c", "t">>, <<"p", "a", "p", "e", "r">>}],
       [type |-> "quiz", words |-> {<<"q", "u", "i", "z">>}],
       [type |-> "presentation", words |-> {<<"p", "r", "e", "s", "e", "n", "t", "a", "t", "i", "o", "n">>, <<"p", "r", "e", "s", "e", "n", "t">>}] >>

\* a keyword of group g stands somewhere in the sentence, in any case
GroupPresent(g, sentence) ==
    \E w \in KeywordGroups[g].words :
        \E pos \in 1..Len(sentence) :
            /\ pos + Len(w) - 1 <= Len(sentence)
            /\ \A i \in 1..Len(w) : LowerChar(sentence[pos + i - 1]) = w[i]

\* C12: determine_deadline_type returns the type of the first keyword group,
\* in the order exam, assignment, project, quiz, presentation, of which a
\* keyword stands in the sentence in any case, and 'assignment' when there
\* is none; a sentence with an exam keyword and a project keyword is 'exam'.
C12_FirstKeywordGroup ==
    Called("determine_deadline_type") =>
        /\ \A g \in 1..Len(KeywordGroups) :
              (GroupPresent(g, text) /\ \A h \in 1..(g - 1) : ~GroupPresent(h, text))
                  => parsed.val = KeywordGroups[g].type
        /\ (\A g \in 1..Len(KeywordGroups) : ~GroupPresent(g, text))
              => parsed.val = "assignment"
        /\ GroupPresent(1, text) /\ GroupPresent(3, text) => parsed.val = "exam"

C12_Witness ==
    /\ Called("determine_deadline_type")
    /\ text = <<"M", "i", "d", "t", "e", "r", "m", " ", "e", "x", "a", "m", " ", "a", "n", "d", " ", "f", "i", "n", "a", "l", " ", "p", "r", "o", "j", "e", "c", "t", " ", "d", "u", "e">>
    /\ parsed.val = "exam"

----------------------------------------------------------------------------
(* Calls of extract_deadlines and parse_text_content *)

\* the longest text, in phrases
MaxPhrases == 2

\* the date phrases, each with the calendar day that it mentions
PhraseDays ==
    { [phrase |-> <<"M", "a", "r", "c", "h", " ", "1", "5", ",", " ", "2", "0", "2", "4">>, day |-> <<"2", "0", "2", "4", "-", "0", "3", "-", "1", "5">>],
      [phrase |-> <<"0", "3", "/", "1", "5", "/", "2", "0", "2", "4">>, day |-> <<"2", "0", "2", "4", "-", "0", "3", "-", "1", "5">>],
      [phrase |-> <<"3", "/", "1", "5", "/", "2", "0", "2", "4">>, day |-> <<"2", "0", "2", "4", "-", "0", "3", "-", "1", "5">>],
      [phrase |-> <<"0", "4", "/", "0", "1", "/", "2", "0", "2", "4">>, day |-> <<"2", "0", "2", "4", "-", "0", "4", "-", "0", "1">>] }

DatePhrases == {p.phrase : p \in PhraseDays}

\* phrases that hold a deadline keyword
KeywordPhrases == { <<"P", "r", "o", "j", "e", "c", "t">>, <<"d", "u", "e">> }

\* phrases with no keyword and no date; the second one ends a sentence
PlainPhrases == { <<"n", "o", "t", "e", "s">>, <<"n", "o", "t", "e", "s", ".">> }

Phrases == DatePhrases \cup KeywordPhrases \cup PlainPhrases

PhraseLists == ListsUpTo(Phrases, MaxPhrases)

\* the length above which a title is cut
TitleLimit == 100

LongTitle == [i \in 1..(TitleLimit + 1) |-> "a"]

DeadlineExamples ==
    { <<"P", "r", "o", "j", "e", "c", "t", " ", "d", "u", "e", " ", "M", "a", "r", "c", "h", " ", "1", "5", ",", " ", "2", "0", "2", "4">>,
      <<"E", "x", "a", "m", " ", "o", "n", " ", "0", "3", "/", "1", "5", "/", "2", "0", "2", "4", " ", "a", "n", "d", " ", "0", "4", "/", "0", "1", "/", "2", "0", "2", "4">>,
      <<"M", "a", "r", "c", "h", " ", "1", "5", " ", "e", "x", "a", "m">>,
      <<"E", "x", "a", "m", " ", "0", "1", "/", "0", "2", "/", "0", "9", "9", "9">>,
      <<"Q", "u", "i", "z", ":", " ">> \o LongTitle \o <<" ", "0", "3", "/", "1", "5", "/", "2", "0", "2", "4">>,
      <<"R", "e", "a", "d", " ", "c", "h", "a", "p", "t", "e", "r", " ", "2", ".", " ", "P", "a", "p", "e", "r", " ", "d", "u", "e", " ", "2", "0", "2", "4", "-", "0", "3", "-", "1", "5", "!", " ", "O", "f", "f", "i", "c", "e", " ", "h", "o", "u", "r", "s", " ", "0", "4", "/", "0", "1", "/", "2", "0", "2", "4">> }

DeadlineTexts == {Join(l) : l \in PhraseLists} \cup DeadlineExamples

DeadlineInit ==
    /\ pc = "call"
    /\ day_i = 0
    /\ now \in ParserNows
    /\ padYear \in BOOLEAN
    /\ hashSeed \in {0, 1}
    /\ parsed_dates = <<>>
    /\ user_data = NoPrefs
    /\ schedule = [raised |-> FALSE, items |-> <<>>]
    /\ text \in DeadlineTexts
    /\ parsed = [fn |-> "none", val |-> <<>>]
    /\ request = NoRequest
    /\ response = NoResponse
    /\ student_schedules = <<>>
    /\ calls = <<>>

CallExtractDeadlines ==
    ParserCall("extract_deadlines",
               extract_deadlines(text, CurrentYear, padYear, hashSeed))

CallParseTextContent ==
    ParserCall("parse_text_content",
               parse_text_content(text, CurrentYear, padYear, hashSeed))

DeadlineNext ==
    \/ CallExtractDeadlines
    \/ CallParseTextContent

SpecDeadlines == DeadlineInit /\ [][DeadlineNext]_vars

----------------------------------------------------------------------------
(* Properties of extract_deadlines *)

\* the phrase lists of one sentence
OneSentence(l) == \A k \in 1..Len(l) : l[k] # <<"n", "o", "t", "e", "s", ".">>

HasKeyword(l) == \E k \in 1..Len(l) : l[k] \in KeywordPhrases

\* the calendar days that the phrases of l mention
DaysMentioned(l) == {p.day : p \in {q \in PhraseDays : \E k \in 1..Len(l) : l[k] = q.phrase}}

\* C13: a sentence with a deadline keyword that mentions n distinct dates
\* gives exactly n deadlines, one per date, with the same title, description
\* and type; a sentence without a keyword or without a date gives none; the
\* sentence 'Project due March 15, 2024' gives exactly one deadline.
C13_OneDeadlinePerDate ==
    Called("extract_deadlines") =>
        /\ \A l \in PhraseLists :
              (OneSentence(l) /\ text = Join(l)) =>
                  /\ Len(parsed.val) = IF HasKeyword(l) THEN Cardinality(DaysMentioned(l)) ELSE 0
                  /\ HasKeyword(l) => {parsed.val[k].date : k \in 1..Len(parsed.val)} = DaysMentioned(l)
                  /\ \A j, k \in 1..Len(parsed.val) :
                        /\ parsed.val[j].title = parsed.val[k].title
                        /\ parsed.val[j].description = parsed.val[k].description
                        /\ parsed.val[j].type = parsed.val[k].type
        /\ text = <<"P", "r", "o", "j", "e", "c", "t", " ", "d", "u", "e", " ", "M", "a", "r", "c", "h", " ", "1", "5", ",", " ", "2", "0", "2", "4">> => Len(parsed.val) = 1

DeadlineTypes == {"exam", "assignment", "project", "quiz", "presentation"}

\* C14: every deadline that extract_deadlines returns has a date that is a
\* YYYY-MM-DD calendar date, one of the five types, and a title that is not
\* empty and not longer than 100 characters: a longer title is cut to its
\* first 97 characters and '...', an empty one is 'Untitled Deadline'.
C14_DeadlinesWellFormed ==
    Called("extract_deadlines") =>
        /\ \A k \in 1..Len(parsed.val) :
              /\ IsCanonicalDate(parsed.val[k].date)
              /\ parsed.val[k].type \in DeadlineTypes
              /\ parsed.val[k].title # <<>>
              /\ Len(parsed.val[k].title) <= TitleLimit
        /\ text = <<"Q", "u", "i", "z", ":", " ">> \o LongTitle \o <<" ", "0", "3", "/", "1", "5", "/", "2", "0", "2", "4">> =>
              /\ Len(parsed.val) = 1
              /\ parsed.val[1].title = SubSeq(LongTitle, 1, 97) \o <<".", ".", ".">>
        /\ text = <<"M", "a", "r", "c", "h", " ", "1", "5", " ", "e", "x", "a", "m">> =>
              /\ Len(parsed.val) = 1
              /\ parsed.val[1].title = UntitledDeadline

----------------------------------------------------------------------------
(* Properties of parse_text_content *)

\* C20: parsing the empty text is no error: parse_text_content('') returns
\* dates = [], courses = {codes: [], names: []}, deadlines = [] and
\* class_times = [].
C20_EmptyText ==
    (Called("parse_text_content") /\ text = <<>>) =>
        parsed.val = [dates |-> <<>>,
                      courses |-> [codes |-> <<>>, names |-> <<>>],
                      deadlines |-> <<>>,
                      class_times |-> <<>>]

C20_Witness ==
    /\ Called("parse_text_content")
    /\ text = <<>>
    /\ parsed.val.courses = [codes |-> <<>>, names |-> <<>>]
    /\ parsed.val.dates = <<>>

----------------------------------------------------------------------------
(* Properties of the daily plans *)

\* a schedule under construction or returned holds at least one day
HasPlans == pc \in {"loop", "done"} /\ ~schedule.raised /\ schedule.items # <<>>

\* the day whose plan was put into the schedule last, its plan, and the
\* activities generated for it
LastDay == PlusDays(now, Len(schedule.items) - 1)

LastPlan == schedule.items[Len(schedule.items)].plan

LastGenerated ==
    DailyActivities(LastDay, Wakeup(user_data).val, Sleep(user_data).val,
                    StudyStyle(user_data), Deadlines(user_data), padYear)

\* the place of the i-th generated activity in a stable ascending order by
\* time: behind the activities of a lesser time and behind those of the same
\* time that were generated before it
StablePlace(gen, i) ==
    1 + Cardinality({j \in 1..Len(gen) : StrLess(gen[j].time, gen[i].time)})
      + Cardinality({j \in 1..(i - 1) : gen[j].time = gen[i].time})

\* C15: the list of a day is a permutation of all activities generated for
\* the day, none dropped or merged, in ascending order of the 'time' strings,
\* and activities of equal time keep the order of their generation (routine,
\* breakfast, study, lunch, dinner, deadlines, reviews, wellness, free time).
C15_StableSortedPermutation ==
    HasPlans =>
        LET plan == LastPlan
            gen  == LastGenerated
        IN  /\ Len(plan) = Len(gen)
            /\ \A i \in 1..Len(gen) : plan[StablePlace(gen, i)] = gen[i]
            /\ \A j, k \in 1..Len(plan) :
                  j < k => ~StrLess(plan[k].time, plan[j].time)

\* with wakeup 6 the afternoon study block and the wellness time of a weekday
\* are both at 14:00, and the study block, generated first, stands first
C15_Witness ==
    /\ Returned
    /\ "wakeup" \in DOMAIN user_data /\ user_data.wakeup = PyInt(6)
    /\ \E n \in 1..Len(schedule.items) :
          \E k \in 1..(Len(schedule.items[n].plan) - 1) :
              /\ schedule.items[n].plan[k].time = T1400
              /\ schedule.items[n].plan[k].type = "study"
              /\ schedule.items[n].plan[k + 1].time = T1400
              /\ schedule.items[n].plan[k + 1].type = "wellness"

----------------------------------------------------------------------------
(* Properties of the study sessions *)

\* the study activities of a plan, in the order of the plan
StudyOf(plan) == SelectSeq(plan, IsStudy)

\* a study activity of the plan has this time and this duration
HasStudy(plan, time, duration) ==
    \E k \in 1..Len(plan) :
        IsStudy(plan[k]) /\ plan[k].time = time /\ plan[k].duration = duration

\* the index of the weekday of the day planned last, 0 for Monday, counted
\* from Monday 2023-11-13
LastWeekday == (ToOrdinal(LastDay.date) - ToOrdinal(<<2023, 11, 13>>)) % 7

\* C16: with the style 'pomodoro' a day has a study block of 120 minutes at
\* wakeup+2:00 and one of 120 minutes at 14:00, and a third one, of 60 minutes
\* at 19:00, exactly on the weekdays below 5; with wakeup 8 and sleep 23 the
\* sorted plan of a weekday begins with the routine at 08:00 and holds a
\* study block of 120 minutes at 14:00.
C16_PomodoroBlocks ==
    (HasPlans /\ StudyStyle(user_data) = "pomodoro") =>
        LET plan   == LastPlan
            wakeup == Wakeup(user_data).val
        IN  /\ HasStudy(plan, HourStr(wakeup + 2), 120)
            /\ HasStudy(plan, T1400, 120)
            /\ HasStudy(plan, T1900, 60) <=> LastWeekday < 5
            /\ Len(StudyOf(plan)) = IF LastWeekday < 5 THEN 3 ELSE 2
            /\ (wakeup = 8 /\ Sleep(user_data).val = 23 /\ LastWeekday < 5) =>
                  /\ plan[1].type = "routine"
                  /\ plan[1].time = <<"0", "8", ":", "0", "0">>
                  /\ HasStudy(plan, T1400, 120)

\* a schedule of the default preferences is returned: its first day, Friday
\* 2026-11-06, has the evening block, its second day has not
C16_Witness ==
    /\ Returned
    /\ user_data = NoPrefs
    /\ now.date = <<2026, 11, 6>>
    /\ Len(schedule.items) = HorizonDays
    /\ schedule.items[1].plan[1].time = <<"0", "8", ":", "0", "0">>
    /\ HasStudy(schedule.items[1].plan, T1900, 60)
    /\ Len(StudyOf(schedule.items[2].plan)) = 2

\* C17: with the style 'focused' a day has exactly two study sessions, of
\* 180 minutes at wakeup+2:00 and of 150 minutes at 14:00, on every weekday;
\* with any other style that is not 'pomodoro' ('flexible' or an unrecognized
\* string) exactly four: at wakeup+2:00 (90), 13:00 (60), 16:00 (90) and
\* 19:30 (45, 'Evening Review'); 'sleep' plays no part.
C17_FocusedAndFlexibleBlocks ==
    (HasPlans /\ StudyStyle(user_data) # "pomodoro") =>
        LET plan   == LastPlan
            wakeup == Wakeup(user_data).val
        IN  IF StudyStyle(user_data) = "focused"
            THEN /\ Len(StudyOf(plan)) = 2
                 /\ HasStudy(plan, HourStr(wakeup + 2), 180)
                 /\ HasStudy(plan, T1400, 150)
            ELSE /\ Len(StudyOf(plan)) = 4
                 /\ HasStudy(plan, HourStr(wakeup + 2), 90)
                 /\ HasStudy(plan, T1300, 60)
                 /\ HasStudy(plan, T1600, 90)
                 /\ \E k \in 1..Len(plan) :
                       /\ IsStudy(plan[k])
                       /\ plan[k].time = T1930
                       /\ plan[k].duration = 45
                       /\ plan[k].activity = <<"Evening Review">>

\* a schedule for an unrecognized style and a sleep hour that is not the
\* default is returned, with the four sessions on a Sunday
C17_Witness ==
    /\ Returned
    /\ StudyStyle(user_data) = "other"
    /\ "sleep" \in DOMAIN user_data /\ user_data.sleep = PyInt(22)
    /\ now.date = <<2026, 11, 6>>
    /\ Len(StudyOf(schedule.items[3].plan)) = 4
    /\ HasStudy(schedule.items[3].plan, T1930, 45)

----------------------------------------------------------------------------
(* Properties of the deadline activities *)

\* the deadlines of the call whose date is a YYYY-MM-DD calendar date
DatedDeadlines ==
    {k \in 1..Len(Deadlines(user_data)) :
        /\ "date" \in DOMAIN Deadlines(user_data)[k]
        /\ IsCanonicalDate(Deadlines(user_data)[k].date)}

\* the label of the activity of deadline d: emoji of the type, the warning
\* sign for a type without one, the type in upper case, and the title
DeadlineLabel(d) ==
    << IF Get(d, "type", "") \in DOMAIN type_emojis
       THEN type_emojis[Get(d, "type", "")] ELSE "WARNING",
       " ", UpperOfType(Get(d, "type", "")), ": " >> \o Get(d, "title", <<>>)

\* the places in a plan of the activities of deadline d
ActivitiesOf(plan, d) ==
    {j \in 1..Len(plan) :
        /\ plan[j].type = "deadline"
        /\ plan[j].activity = DeadlineLabel(d)
        /\ plan[j].priority = "high"}

\* the deadlines of the call that have the date and the label of deadline d
SameAs(d) ==
    {k \in DatedDeadlines :
        /\ Deadlines(user_data)[k].date = d.date
        /\ DeadlineLabel(Deadlines(user_data)[k]) = DeadlineLabel(d)}

\* the place in the horizon of the day of a date string, 1 for today
HorizonPlace(ds) == ToOrdinal(DateOfString(ds)) - ToOrdinal(now.date) + 1

\* C18: a deadline dated within the horizon has exactly one activity of type
\* 'deadline' in the schedule, on the day of its date and on no other day, of
\* priority 'high' and labelled with the emoji of its type (the warning sign
\* for an unknown type), the type in upper case and the title; a deadline
\* dated outside the horizon has none, and no day holds another deadline
\* activity.
C18_DeadlineOnItsDay ==
    Returned =>
        /\ \A k \in DatedDeadlines :
              LET d == Deadlines(user_data)[k]
              IN  \A n \in 1..Len(schedule.items) :
                      Cardinality(ActivitiesOf(schedule.items[n].plan, d))
                          = IF n = HorizonPlace(d.date)
                            THEN Cardinality(SameAs(d)) ELSE 0
        /\ \A n \in 1..Len(schedule.items) :
              Cardinality({j \in 1..Len(schedule.items[n].plan) :
                              schedule.items[n].plan[j].type = "deadline"})
                  = Cardinality({k \in DatedDeadlines :
                                    HorizonPlace(Deadlines(user_data)[k].date) = n})
        /\ \A k \in DatedDeadlines :
              HorizonPlace(Deadlines(user_data)[k].date) \in 1..HorizonDays
                  => schedule.items[HorizonPlace(Deadlines(user_data)[k].date)].date_str
                         = Deadlines(user_data)[k].date

\* a schedule is returned whose fourth day holds the activity of a deadline
\* of the unknown type 'Exam' dated three days from now
C18_Witness ==
    /\ Returned
    /\ Len(Deadlines(user_data)) = 1
    /\ Get(Deadlines(user_data)[1], "type", "") = "Exam"
    /\ \E j \in 1..Len(schedule.items[4].plan) :
          /\ schedule.items[4].plan[j].type = "deadline"
          /\ schedule.items[4].plan[j].activity = <<"WARNING", " ", "EXAM", ": ", "X">>
          /\ schedule.items[4].plan[j].priority = "high"

----------------------------------------------------------------------------
(* Properties of the activities *)

\* C19: every activity placed in a schedule, of every type, the type
\* 'deadline' included, has a 'time' field and a 'duration' field that is an
\* integer number of minutes.
C19_EveryActivityHasDuration ==
    HasPlans =>
        \A j \in 1..Len(LastPlan) :
            /\ "time" \in DOMAIN LastPlan[j]
            /\ "duration" \in DOMAIN LastPlan[j]
            /\ LastPlan[j].duration \in Int

----------------------------------------------------------------------------
(* Two calls of parse_text_content on one text *)

\* the text and the clock are the same for both calls; the server process
\* may be started anew between them, and a process draws its hash seed when
\* it starts
RepeatInit ==
    /\ pc = "call"
    /\ day_i = 0
    /\ now \in ParserNows
    /\ padYear \in BOOLEAN
    /\ hashSeed \in {0, 1}
    /\ parsed_dates = <<>>
    /\ user_data = NoPrefs
    /\ schedule = [raised |-> FALSE, items |-> <<>>]
    /\ text \in DeadlineTexts
    /\ parsed = [fn |-> "none", val |-> <<>>]
    /\ request = NoRequest
    /\ response = NoResponse
    /\ student_schedules = <<>>
    /\ calls = <<>>

\* the first call of parse_text_content(text)
ParseTextContentOnce ==
    /\ pc = "call"
    /\ pc' = "called"
    /\ parsed' = [fn |-> "parse_text_content",
                  val |-> parse_text_content(text, CurrentYear, padYear, hashSeed)]
    /\ UNCHANGED <<day_i, now, padYear, hashSeed, parsed_dates, user_data,
                   schedule, text, request, response,
                   student_schedules, calls>>

\* the server process ends and another one starts
RestartProcess ==
    /\ pc = "called"
    /\ pc' = "restarted"
    /\ hashSeed' \in {0, 1}
    /\ UNCHANGED <<day_i, now, padYear, parsed_dates, user_data, schedule, text,
                   parsed, request, response,
                   student_schedules, calls>>

\* the second call of parse_text_content(text)
ParseTextContentAgain ==
    /\ pc \in {"called", "restarted"}
    /\ pc' = "done"
    /\ parsed' = [fn |-> "parse_text_content",
                  val |-> parsed.val,
                  again |-> parse_text_content(text, CurrentYear, padYear, hashSeed)]
    /\ UNCHANGED <<day_i, now, padYear, hashSeed, parsed_dates, user_data,
                   schedule, text, request, response,
                   student_schedules, calls>>

RepeatNext ==
    \/ ParseTextContentOnce
    \/ RestartProcess
    \/ ParseTextContentAgain

SpecRepeat == RepeatInit /\ [][RepeatNext]_vars

----------------------------------------------------------------------------
(* Properties of repeated calls *)

\* C21: two calls of parse_text_content on the same text in the same year
\* return equal results, the order of every list included.
C21_RepeatedCallsAgree ==
    pc = "done" => parsed.again = parsed.val

\* the same for two calls that one process serves
RepeatedCallsAgreeInOneProcess ==
    [][ParseTextContentAgain /\ pc = "called" => parsed'.again = parsed'.val]_vars

----------------------------------------------------------------------------
(* Properties of the review activities *)

\* the review activities of a plan
ReviewsIn(plan) == {k \in 1..Len(plan) : plan[k].type = "review"}

\* the title that a review activity carries behind its label
ReviewTitle(a) == SubSeq(a.activity, 5, Len(a.activity))

\* the deadlines of the call, as a set
DeadlineSet == {Deadlines(user_data)[k] : k \in 1..Len(Deadlines(user_data))}

\* C22: every review activity is at 20:00 and belongs to a deadline of type
\* exam or project; it is Intensive with 60 minutes and high priority,
\* Focused with 45 minutes and high priority, or Initial with 45 minutes and
\* medium priority.  A deadline of another type produces no review.
C22_ReviewsWellFormed ==
    HasPlans =>
        \A k \in ReviewsIn(LastPlan) :
            LET a == LastPlan[k]
            IN  /\ a.time = T2000
                /\ <<a.activity[3], a.duration, a.priority>>
                       \in { <<"Intensive", 60, "high">>,
                             <<"Focused", 45, "high">>,
                             <<"Initial", 45, "medium">> }
                /\ \E d \in DeadlineSet :
                      /\ Get(d, "type", "") \in {"exam", "project"}
                      /\ Get(d, "title", <<>>) = ReviewTitle(a)
                      /\ Get(d, "course_code", <<>>) = a.course

\* the plan of a day that is 3 days before a quiz and a project: it holds
\* a review, and none of the quiz
C22_Witness ==
    /\ HasPlans
    /\ \E q, p \in {d \in DeadlineSet : "date" \in DOMAIN d /\ IsDateString(d.date)} :
          /\ Get(q, "type", "") = "quiz" /\ Get(p, "type", "") = "project"
          /\ CalendarDaysUntil(q, schedule.items[Len(schedule.items)].date_str) = 3
          /\ CalendarDaysUntil(p, schedule.items[Len(schedule.items)].date_str) = 3
          /\ \E k \in ReviewsIn(LastPlan) : ReviewTitle(LastPlan[k]) = p.title
          /\ \A k \in ReviewsIn(LastPlan) : ReviewTitle(LastPlan[k]) # q.title

\* the places in the schedule of the days that hold a review of deadline d
ReviewDays(d) ==
    {n \in 1..Len(schedule.items) : ReviewsOf(schedule.items[n].plan, d) # {}}

\* the intensity label of the review of deadline d on the day at place n
ReviewLabel(d, n) ==
    LET plan == schedule.items[n].plan
    IN  plan[CHOOSE k \in ReviewsOf(plan, d) : TRUE].activity[3]

\* the deadlines of the call that are dated, count as major and are listed
\* once
SingleMajorDeadlines ==
    {d \in MajorDeadlines : Occurrences(Deadlines(user_data), d) = 1}

\* C23: over the whole schedule one exam or project deadline produces at
\* most three reviews, at most one on a day, with pairwise distinct intensity
\* labels; a deadline dated at least 8 days after today on a day of the
\* schedule produces exactly three.
C23_AtMostThreeReviews ==
    Returned =>
        \A d \in SingleMajorDeadlines :
            /\ \A n \in 1..Len(schedule.items) :
                  Cardinality(ReviewsOf(schedule.items[n].plan, d)) <= 1
            /\ Cardinality(ReviewDays(d)) <= 3
            /\ \A m, n \in ReviewDays(d) :
                  m # n => ReviewLabel(d, m) # ReviewLabel(d, n)
            /\ CalendarDaysUntil(d, DayString(now, 0)) \in 8..(HorizonDays - 1)
                  => Cardinality(ReviewDays(d)) = 3

\* a schedule made in the afternoon for a project that is due 8 days later
\* holds its three reviews
C23_Witness ==
    /\ Returned
    /\ now.tod > 0
    /\ \E d \in SingleMajorDeadlines :
          /\ d.date = DayString(now, 8)
          /\ Cardinality(ReviewDays(d)) = 3


\* the plan holds the activity a and holds no other activity of that name
HoldsOnce(plan, a) ==
    /\ \E k \in 1..Len(plan) : plan[k] = a
    /\ Cardinality({k \in 1..Len(plan) : plan[k].activity = a.activity}) = 1

\* the wellness activity of a day whose wakeup hour is w
WellnessActivity(w) ==
    [time |-> HourStr(w + 8), activity |-> <<"Exercise/Wellness Time">>,
     type |-> "wellness", duration |-> 45]

\* the five activities that every day holds, for the hours w and s
FixedActivities(w, s) ==
    { [time |-> HourStr(w), activity |-> <<"Morning Routine & Wake Up">>,
       type |-> "routine", duration |-> 60],
      [time |-> HourStr(w + 1), activity |-> <<"Breakfast">>,
       type |-> "meal", duration |-> 30],
      [time |-> T1200, activity |-> <<"Lunch Break">>,
       type |-> "meal", duration |-> 60],
      [time |-> T1800, activity |-> <<"Dinner">>,
       type |-> "meal", duration |-> 60],
      [time |-> HourStr(s - 2), activity |-> <<"Free Time & Relaxation">>,
       type |-> "free", duration |-> 120] }

\* C24: every day of the schedule holds exactly one morning routine at
\* wakeup:00 (60 min), one breakfast at wakeup+1:00 (30 min), one lunch at
\* 12:00 (60 min), one dinner at 18:00 (60 min) and one free-time activity
\* at sleep-2:00 (120 min), whatever the deadlines are; it holds one wellness
\* activity at wakeup+8:00 (45 min) on Monday to Friday and none on Saturday
\* and Sunday.
C24_FixedActivitiesOnce ==
    HasPlans =>
        /\ \A a \in FixedActivities(Wakeup(user_data).val, Sleep(user_data).val) :
              HoldsOnce(LastPlan, a)
        /\ IF Weekday(LastDay.date) < 5
           THEN HoldsOnce(LastPlan, WellnessActivity(Wakeup(user_data).val))
           ELSE \A k \in 1..Len(LastPlan) : LastPlan[k].type # "wellness"

\* a Saturday or Sunday on which a deadline falls and a review is held: the
\* five fixed activities are there, the wellness activity is not
C24_Witness ==
    /\ HasPlans
    /\ Weekday(LastDay.date) >= 5
    /\ \E k \in 1..Len(LastPlan) : LastPlan[k].type = "deadline"
    /\ \E k \in 1..Len(LastPlan) : LastPlan[k].type = "review"
    /\ \A a \in FixedActivities(Wakeup(user_data).val, Sleep(user_data).val) :
          HoldsOnce(LastPlan, a)


----------------------------------------------------------------------------
\* extract_courses on texts that mention courses

MaxMentions == 3

\* mentions of the course CS 101 in three spellings, a code with a trailing
\* letter, and a word that is no course code
CourseTokens ==
    { <<"C", "S", "1", "0", "1">>, <<"C", "S", " ", "1", "0", "1">>, <<"c", "s", "-", "1", "0", "1">>, <<"M", "A", "T", "H", " ", "2", "0", "1", "A">>, <<"R", "o", "o", "m", " ", "1", "2">> }

CourseTexts == {Join(l) : l \in ListsUpTo(CourseTokens, MaxMentions)}

CoursesInit ==
    /\ pc = "call"
    /\ day_i = 0
    /\ now \in ParserNows
    /\ padYear \in BOOLEAN
    /\ hashSeed \in {0, 1}
    /\ parsed_dates = <<>>
    /\ user_data = NoPrefs
    /\ schedule = [raised |-> FALSE, items |-> <<>>]
    /\ text \in CourseTexts
    /\ parsed = [fn |-> "none", val |-> <<>>]
    /\ request = NoRequest
    /\ response = NoResponse
    /\ student_schedules = <<>>
    /\ calls = <<>>

CallExtractCourses ==
    ParserCall("extract_courses", extract_courses(text, hashSeed))

CoursesNext == CallExtractCourses

SpecCourses == CoursesInit /\ [][CoursesNext]_vars

\* 2-4 letters, then 3-4 digits, then at most one letter, and nothing else
IsCourseToken(c) ==
    \E n \in 2..4, m \in 3..4, t \in 0..1 :
        /\ Len(c) = n + m + t
        /\ \A i \in 1..n : IsAlpha(c[i])
        /\ \A i \in (n + 1)..(n + m) : IsDigit(c[i])
        /\ t = 1 => IsAlpha(c[Len(c)])

\* the text with its blanks and hyphens taken out, in upper case: the course
\* that a mention names
CourseOf(c) == Upper(SelectSeq(c, IsWord))

\* C25: every code that extract_courses returns is in upper case, occurs
\* once in 'codes' and is a purely alphanumeric token of 2-4 letters, 3-4
\* digits and at most one trailing letter, so that no two codes of a result
\* name one course.
C25_CodesAreCanonical ==
    (pc = "done" /\ parsed.fn = "extract_courses") =>
        \A k \in 1..Len(parsed.val.codes) :
            /\ parsed.val.codes[k] = Upper(parsed.val.codes[k])
            /\ Occurrences(parsed.val.codes, parsed.val.codes[k]) = 1
            /\ IsCourseToken(parsed.val.codes[k])
            /\ \A j \in 1..Len(parsed.val.codes) :
                  CourseOf(parsed.val.codes[j]) = CourseOf(parsed.val.codes[k])
                      => j = k

\* the part of C25 that the code keeps: upper case, no code twice, and the
\* letters, digits and trailing letter in this order around at most one
\* blank or hyphen
CodesUpperAndUnique ==
    (pc = "done" /\ parsed.fn = "extract_courses") =>
        \A k \in 1..Len(parsed.val.codes) :
            /\ parsed.val.codes[k] = Upper(parsed.val.codes[k])
            /\ Occurrences(parsed.val.codes, parsed.val.codes[k]) = 1
            /\ IsCourseToken(CourseOf(parsed.val.codes[k]))
            /\ Len(parsed.val.codes[k]) <= Len(CourseOf(parsed.val.codes[k])) + 1

\* the three spellings of one course come back as three codes
ThreeCodesOfOneCourse ==
    /\ pc = "done"
    /\ text = <<"C", "S", "1", "0", "1", " ", "C", "S", " ", "1", "0", "1", " ", "c", "s", "-", "1", "0", "1">>
    /\ Range(parsed.val.codes) = { <<"C", "S", "1", "0", "1">>, <<"C", "S", " ", "1", "0", "1">>, <<"C", "S", "-", "1", "0", "1">> }
    /\ Len(parsed.val.codes) = 3


----------------------------------------------------------------------------
(* The order of the steps of an upload *)

\* an upload with a named file and a form whose hours int() accepts
WellFormedUpload ==
    /\ "file" \in DOMAIN request
    /\ request.file.filename # <<>>
    /\ ToInt(PyStr(Get(request.form, "wakeup", <<"8">>))).ok
    /\ ToInt(PyStr(Get(request.form, "sleep", <<"2", "3">>))).ok

NoStepAfterSecureFilename ==
    (pc = "done" /\ "file" \in DOMAIN request /\ request.file.filename # <<>>) =>
        /\ response.status = 500
        /\ parsed = <<>>
        /\ schedule.items = <<>>


----------------------------------------------------------------------------
(* The times of the activities *)

\* a zero-padded HH:MM string with the hour in 00..23 and the minute in
\* 00..59
IsClockTime(t) ==
    /\ Len(t) = 5
    /\ t[3] = ":"
    /\ \A i \in {1, 2, 4, 5} : IsDigit(t[i])
    /\ DecimalValue(SubSeq(t, 1, 2)) \in 0..23
    /\ DecimalValue(SubSeq(t, 4, 5)) \in 0..59

\* C27: for wakeup and sleep in 0..23 and every study style, the time of
\* every activity of a day's plan is a zero-padded HH:MM string with the
\* hour in 00..23 and the minute in 00..59.
C27_TimesAreClockTimes ==
    (HasPlans /\ Wakeup(user_data).val \in 0..23 /\ Sleep(user_data).val \in 0..23) =>
        \A k \in 1..Len(LastPlan) : IsClockTime(LastPlan[k].time)

\* the hours for which the times are clock times: wakeup + 8 is at most 23
\* and sleep - 2 is at least 0
TimesAreClockTimesInDaytime ==
    (HasPlans /\ Wakeup(user_data).val \in 0..15 /\ Sleep(user_data).val \in 2..23) =>
        \A k \in 1..Len(LastPlan) : IsClockTime(LastPlan[k].time)


----------------------------------------------------------------------------
\* parse_schedule

\* parse_schedule(filepath).  read tells the outcome of reading the file:
\* TRUE when extract_from_pdf, extract_from_docx, extract_from_txt or
\* textract returns its text s, FALSE when it raises (a missing or unreadable
\* file, bytes that are not UTF-8)
parse_schedule(read, s, current_year, pad, seed) ==
    IF read
    THEN parse_text_content(s, current_year, pad, seed)
    ELSE [dates |-> <<>>, courses |-> <<>>, deadlines |-> <<>>]

\* the texts of the files
ScheduleTexts == Documents \cup DeadlineExamples

ScheduleInit ==
    /\ pc = "call"
    /\ day_i = 0
    /\ now \in ParserNows
    /\ padYear \in BOOLEAN
    /\ hashSeed \in {0, 1}
    /\ parsed_dates = <<>>
    /\ user_data = NoPrefs
    /\ schedule = [raised |-> FALSE, items |-> <<>>]
    /\ text \in ScheduleTexts
    /\ parsed = [fn |-> "none", val |-> <<>>]
    /\ request = NoRequest
    /\ response = NoResponse
    /\ student_schedules = <<>>
    /\ calls = <<>>

\* parse_schedule is called on a file that holds text; reading it succeeds
\* or raises
CallParseSchedule ==
    \E read \in BOOLEAN :
        /\ pc = "call"
        /\ pc' = "done"
        /\ parsed' = [fn |-> "parse_schedule", read |-> read,
                      val |-> parse_schedule(read, text, CurrentYear,
                                             padYear, hashSeed)]
        /\ UNCHANGED <<day_i, now, padYear, hashSeed, parsed_dates, user_data,
                       schedule, text, request, response,
                   student_schedules, calls>>

ScheduleNext == CallParseSchedule

SpecSchedule == ScheduleInit /\ [][ScheduleNext]_vars

\* C28: parse_schedule returns a result of one shape on every path: a
\* mapping with the keys dates, courses, deadlines and class_times whose
\* courses is a mapping with the keys codes and names, when reading the file
\* succeeds and when it raises, and then every collection is empty.
C28_SameShapeOnEveryPath ==
    pc = "done" =>
        /\ DOMAIN parsed.val = {"dates", "courses", "deadlines", "class_times"}
        /\ DOMAIN parsed.val.courses = {"codes", "names"}
        /\ ~parsed.read =>
              /\ parsed.val.dates = <<>>
              /\ parsed.val.courses.codes = <<>>
              /\ parsed.val.courses.names = <<>>
              /\ parsed.val.deadlines = <<>>
              /\ parsed.val.class_times = <<>>

\* the shape on the path on which the file is read
ShapeWhenRead ==
    (pc = "done" /\ parsed.read) =>
        /\ DOMAIN parsed.val = {"dates", "courses", "deadlines", "class_times"}
        /\ DOMAIN parsed.val.courses = {"codes", "names"}

\* the result on the path on which reading raises: three keys, and courses
\* an empty list
ResultWhenReadingRaises ==
    (pc = "done" /\ ~parsed.read) =>
        parsed.val = [dates |-> <<>>, courses |-> <<>>, deadlines |-> <<>>]


----------------------------------------------------------------------------
\* database.py: add_student_schedule.  Every call opens its own connection
\* to the one database file; the calls of concurrent uploads interleave
\* statement by statement.

MaxCalls == 3

Emails == { <<"a", "@", "b">>, <<"c", "@", "d">> }

CallIds == 1..MaxCalls

\* the calls before their first statement; the schedule of call c is named c
NewCalls ==
    { [c \in CallIds |-> [email |-> e[c], schedule_data |-> c, pc |-> "select",
                          existing |-> FALSE, order |-> 0]] :
        e \in [CallIds -> Emails] }

DatabaseInit ==
    /\ pc = "call"
    /\ day_i = 0
    /\ now = [date |-> <<2026, 11, 6>>, tod |-> 0]
    /\ padYear = FALSE
    /\ hashSeed = 0
    /\ parsed_dates = <<>>
    /\ user_data = NoPrefs
    /\ schedule = [raised |-> FALSE, items |-> <<>>]
    /\ text = <<>>
    /\ parsed = <<>>
    /\ request = NoRequest
    /\ response = NoResponse
    /\ student_schedules = <<>>
    /\ calls \in NewCalls

\* the places of the rows of an email in the table
RowsOf(email) ==
    {k \in 1..Len(student_schedules) : student_schedules[k].email = email}

\* a connection holds the write lock from its UPDATE or INSERT to its commit
WriteLockHeld == \E c \in CallIds : calls[c].pc = "commit"

\* the call c moves to position p
Moved(c, p) == [calls EXCEPT ![c].pc = p]

OtherVariablesUnchanged ==
    UNCHANGED <<pc, day_i, now, padYear, hashSeed, parsed_dates, user_data,
                schedule, text, parsed, request, response>>

\* existing = conn.execute('SELECT id ... WHERE email = ?').fetchone(): the
\* committed rows are read
AddStudentScheduleSelect(c) ==
    /\ calls[c].pc = "select"
    /\ calls' = [calls EXCEPT ![c].pc = "write",
                              ![c].existing = RowsOf(calls[c].email) # {}]
    /\ UNCHANGED student_schedules
    /\ OtherVariablesUnchanged

\* conn.execute(UPDATE ...) or conn.execute(INSERT ...): the statement
\* begins a transaction and takes the write lock of the file
AddStudentScheduleExecute(c) ==
    /\ calls[c].pc = "write"
    /\ ~WriteLockHeld
    /\ calls' = Moved(c, "commit")
    /\ UNCHANGED student_schedules
    /\ OtherVariablesUnchanged

\* the statement finds the file locked by another connection for the whole
\* busy timeout: sqlite3.OperationalError leaves add_student_schedule
AddStudentScheduleLocked(c) ==
    /\ calls[c].pc = "write"
    /\ WriteLockHeld
    /\ calls' = Moved(c, "raised")
    /\ UNCHANGED student_schedules
    /\ OtherVariablesUnchanged

\* the table after UPDATE ... SET schedule_data = ? WHERE email = ?
Updated(email, schedule_data) ==
    [k \in 1..Len(student_schedules) |->
        IF student_schedules[k].email = email
        THEN [student_schedules[k] EXCEPT !.schedule_data = schedule_data]
        ELSE student_schedules[k]]

\* the table after INSERT INTO student_schedules (email, schedule_data)
Inserted(email, schedule_data) ==
    Append(student_schedules,
           [id |-> Len(student_schedules) + 1, email |-> email,
            schedule_data |-> schedule_data])

\* conn.commit(); conn.close(): the statement of the call takes effect and
\* the lock is released
AddStudentScheduleCommit(c) ==
    /\ calls[c].pc = "commit"
    /\ student_schedules' =
          IF calls[c].existing
          THEN Updated(calls[c].email, calls[c].schedule_data)
          ELSE Inserted(calls[c].email, calls[c].schedule_data)
    /\ calls' = [calls EXCEPT
                    ![c].pc = "closed",
                    ![c].order = 1 + Cardinality({d \in CallIds :
                                                    calls[d].pc = "closed"})]
    /\ OtherVariablesUnchanged

DatabaseNext ==
    \E c \in CallIds :
        \/ AddStudentScheduleSelect(c)
        \/ AddStudentScheduleExecute(c)
        \/ AddStudentScheduleLocked(c)
        \/ AddStudentScheduleCommit(c)

SpecDatabase == DatabaseInit /\ [][DatabaseNext]_vars

\* the calls for an email that have committed, and the last of them
Written(email) ==
    {c \in CallIds : calls[c].email = email /\ calls[c].pc = "closed"}

LastWriter(email) ==
    CHOOSE c \in Written(email) :
        \A d \in Written(email) : calls[d].order <= calls[c].order

\* C29: after any sequence or interleaving of add_student_schedule calls
\* the table holds at most one row for an email, and the row holds the
\* schedule of the call that wrote last.
C29_OneRowPerEmail ==
    \A e \in Emails :
        /\ Cardinality(RowsOf(e)) <= 1
        /\ Written(e) # {} =>
              \A k \in RowsOf(e) :
                  student_schedules[k].schedule_data
                      = calls[LastWriter(e)].schedule_data

\* what the calls keep: an email whose calls have written has a row that
\* holds the schedule written last
SomeRowHoldsLastSchedule ==
    \A e \in Emails :
        Written(e) # {} =>
            \E k \in RowsOf(e) :
                student_schedules[k].schedule_data
                    = calls[LastWriter(e)].schedule_data

\* two calls for one email both found no row and both inserted
TwoRowsForOneEmail ==
    \E e \in Emails :
        /\ Cardinality(RowsOf(e)) = 2
        /\ \E j, k \in RowsOf(e) :
              j < k /\ student_schedules[j].schedule_data
                          # student_schedules[k].schedule_data

====
